---- MODULE Spec2Model ----
(***************************************************************************)
(* k2rule: the V1 binary rule container (writer and reader), the cached    *)
(* hot-reloadable reader built on it, and the remote rule manager.         *)
(*                                                                         *)
(* Text is a sequence of one-character strings; a u64 is a sequence of     *)
(* four 16-bit limbs, least significant first, so that the FNV-1a hash is  *)
(* computed at its full 64-bit width.                                      *)
(***************************************************************************)
EXTENDS Integers, Sequences, FiniteSets, TLC

(***************************************************************************)
(* Text                                                                    *)
(***************************************************************************)
Lower == <<"a","b","c","d","e","f","g","h","i","j","k","l","m",
           "n","o","p","q","r","s","t","u","v","w","x","y","z">>
Upper == <<"A","B","C","D","E","F","G","H","I","J","K","L","M",
           "N","O","P","Q","R","S","T","U","V","W","X","Y","Z">>
Digits == <<"0","1","2","3","4","5","6","7","8","9">>

IndexIn(c, s) == IF \E i \in 1..Len(s) : s[i] = c
                 THEN CHOOSE i \in 1..Len(s) : s[i] = c
                 ELSE 0

IsDigit(c) == IndexIn(c, Digits) > 0
DigitVal(c) == IndexIn(c, Digits) - 1

\* The ASCII code of a character.
Byte(c) ==
  IF IndexIn(c, Lower) > 0 THEN 96 + IndexIn(c, Lower)
  ELSE IF IndexIn(c, Upper) > 0 THEN 64 + IndexIn(c, Upper)
  ELSE IF IsDigit(c) THEN 48 + DigitVal(c)
  ELSE IF c = "." THEN 46
  ELSE IF c = "-" THEN 45
  ELSE IF c = ":" THEN 58
  ELSE 32

LowerChar(c) == IF IndexIn(c, Upper) > 0 THEN Lower[IndexIn(c, Upper)] ELSE c
UpperChar(c) == IF IndexIn(c, Lower) > 0 THEN Upper[IndexIn(c, Lower)] ELSE c

to_lowercase(s) == [i \in 1..Len(s) |-> LowerChar(s[i])]
to_uppercase(s) == [i \in 1..Len(s) |-> UpperChar(s[i])]

IsSpace(c) == c = " "

RECURSIVE trim_start(_)
trim_start(s) == IF s # <<>> /\ IsSpace(Head(s)) THEN trim_start(Tail(s)) ELSE s

RECURSIVE trim_end(_)
trim_end(s) ==
  IF s # <<>> /\ IsSpace(s[Len(s)]) THEN trim_end(SubSeq(s, 1, Len(s) - 1)) ELSE s

trim(s) == trim_end(trim_start(s))

\* str::find('.'): the 1-based position of the first dot, 0 when there is none.
find_dot(s) == IF \E i \in 1..Len(s) : s[i] = "."
               THEN CHOOSE i \in 1..Len(s) :
                      s[i] = "." /\ \A j \in 1..(i - 1) : s[j] # "."
               ELSE 0

Pow2(n) == 2 ^ n

(***************************************************************************)
(* 64-bit words and the FNV-1a hash                                        *)
(***************************************************************************)
LimbBase == 65536

RECURSIVE Xor8(_, _, _)
Xor8(a, b, n) ==
  IF n = 0 THEN 0
  ELSE (((a % 2) + (b % 2)) % 2) + 2 * Xor8(a \div 2, b \div 2, n - 1)

\* hash ^= byte as u64
XorByte(h, b) ==
  [h EXCEPT ![1] = ((h[1] \div 256) * 256) + Xor8(h[1] % 256, b, 8)]

\* h * 435 over the limbs, the carry out of the top limb dropped (mod 2^64)
MulSmall(h, k) ==
  LET t1 == h[1] * k
      t2 == (h[2] * k) + (t1 \div LimbBase)
      t3 == (h[3] * k) + (t2 \div LimbBase)
      t4 == (h[4] * k) + (t3 \div LimbBase)
  IN  <<t1 % LimbBase, t2 % LimbBase, t3 % LimbBase, t4 % LimbBase>>

\* h << 40 (mod 2^64)
Shl40(h) ==
  <<0, 0, (h[1] % 256) * 256, (h[1] \div 256) + ((h[2] % 256) * 256)>>

Add64(a, b) ==
  LET t1 == a[1] + b[1]
      t2 == a[2] + b[2] + (t1 \div LimbBase)
      t3 == a[3] + b[3] + (t2 \div LimbBase)
      t4 == a[4] + b[4] + (t3 \div LimbBase)
  IN  <<t1 % LimbBase, t2 % LimbBase, t3 % LimbBase, t4 % LimbBase>>

\* 14695981039346656037 = 0xcbf29ce484222325
FNV_OFFSET == <<8997, 33826, 40164, 52210>>
\* 1099511628211 = 2^40 + 435: wrapping_mul(FNV_PRIME) is (h << 40) + h * 435
FNV_PRIME_LOW == 435

Zero64 == <<0, 0, 0, 0>>

wrapping_mul_prime(h) == Add64(Shl40(h), MulSmall(h, FNV_PRIME_LOW))

RECURSIVE fnv1a_from(_, _)
fnv1a_from(hash, data) ==
  IF data = <<>> THEN hash
  ELSE fnv1a_from(wrapping_mul_prime(XorByte(hash, Byte(Head(data)))), Tail(data))

fnv1a_hash(data) == fnv1a_from(FNV_OFFSET, data)

\* a < b on u64
Less64(a, b) ==
  \/ a[4] < b[4]
  \/ a[4] = b[4] /\ a[3] < b[3]
  \/ a[4] = b[4] /\ a[3] = b[3] /\ a[2] < b[2]
  \/ a[4] = b[4] /\ a[3] = b[3] /\ a[2] = b[2] /\ a[1] < b[1]

\* (hash as usize) % n, for n a power of two up to 2^16 (the writer's
\* bucket counts are powers of two)
Mod64(h, n) == h[1] % n

(***************************************************************************)
(* Target                                                                  *)
(***************************************************************************)
Targets == {"Direct", "Proxy", "Reject"}
\* Option::None of Option<Target>
NoTarget == "None"

as_u8(t) == CASE t = "Direct" -> 0 [] t = "Proxy" -> 1 [] t = "Reject" -> 2

from_u8(v) == CASE v = 0 -> "Direct" [] v = 1 -> "Proxy" [] v = 2 -> "Reject"
                [] OTHER -> NoTarget

unwrap_or(opt, default) == IF opt = NoTarget THEN default ELSE opt

(***************************************************************************)
(* IntermediateRules                                                       *)
(***************************************************************************)
IntermediateRules_new ==
  [ exact_domains |-> <<>>, suffix_domains |-> <<>>,
    v4_cidrs |-> <<>>, v6_cidrs |-> <<>>, geoip_countries |-> <<>>,
    exact_v4_ips |-> <<>>, exact_v6_ips |-> <<>>,
    fallback_target |-> "Proxy" ]

add_domain(rules, pattern, target) ==
  LET p == to_lowercase(trim(pattern)) IN
  IF p # <<>> /\ Head(p) = "."
  THEN [rules EXCEPT !.suffix_domains = Append(@, <<Tail(p), target>>)]
  ELSE [rules EXCEPT !.exact_domains = Append(@, <<p, target>>)]

add_v4_cidr(rules, network, prefix_len, target) ==
  [rules EXCEPT !.v4_cidrs = Append(@, <<network, prefix_len, target>>)]

add_v6_cidr(rules, network, prefix_len, target) ==
  [rules EXCEPT !.v6_cidrs = Append(@, <<network, prefix_len, target>>)]

add_geoip(rules, country, target) ==
  [rules EXCEPT !.geoip_countries = Append(@, <<to_uppercase(country), target>>)]

(***************************************************************************)
(* Binary format                                                           *)
(***************************************************************************)
\* b"K2RULE\x00\x01"
MAGIC == <<75, 50, 82, 85, 76, 69, 0, 1>>
FORMAT_VERSION == 1
HEADER_SIZE == 128

\* BinaryHeader::validate
validate(header) ==
  IF header.magic # MAGIC THEN "InvalidMagic"
  ELSE IF header.version > FORMAT_VERSION THEN "UnsupportedVersion"
  ELSE "Ok"

(***************************************************************************)
(* BinaryRuleWriter                                                        *)
(***************************************************************************)
RECURSIVE next_power_of_two_from(_, _)
next_power_of_two_from(p, n) ==
  IF p >= n THEN p ELSE next_power_of_two_from(2 * p, n)

next_power_of_two(n) == next_power_of_two_from(1, n)

Max(a, b) == IF a >= b THEN a ELSE b

\* ((exact_count as f64 / 0.7) as usize).next_power_of_two().max(16)
bucket_count_for(exact_count) ==
  IF exact_count > 0
  THEN Max(next_power_of_two((exact_count * 10) \div 7), 16)
  ELSE 0

EmptyBucket == [hash |-> Zero64, target |-> 0]

\* A writer that takes the home slot whether or not it is occupied.
probe_home(buckets, idx, left) == idx

\* The first free slot met by linear probing from idx, -1 when none is met
\* in `left` probes (slots are numbered from 0, buckets[i + 1] is slot i).
RECURSIVE probe_free(_, _, _)
probe_free(buckets, idx, left) ==
  IF left = 0 THEN -1
  ELSE IF buckets[idx + 1].hash = Zero64 THEN idx
  ELSE probe_free(buckets, (idx + 1) % Len(buckets), left - 1)

RECURSIVE fill_buckets(_, _)
fill_buckets(buckets, domains) ==
  IF domains = <<>> THEN buckets
  ELSE
    LET hash == fnv1a_hash(Head(domains)[1])
        slot == probe_free(buckets, Mod64(hash, Max(Len(buckets), 1)), Len(buckets))
        next == IF slot < 0 THEN buckets
                ELSE [buckets EXCEPT ![slot + 1] =
                        [hash |-> hash, target |-> as_u8(Head(domains)[2])]]
    IN  fill_buckets(next, Tail(domains))

\* The suffix entries in insertion order, each with its offset in the payload.
RECURSIVE suffix_entries_from(_, _)
suffix_entries_from(suffixes, payload_offset) ==
  IF suffixes = <<>> THEN <<>>
  ELSE <<[hash |-> fnv1a_hash(Head(suffixes)[1]),
          target |-> as_u8(Head(suffixes)[2]),
          payload_offset |-> payload_offset,
          domain_len |-> Len(Head(suffixes)[1])]>>
       \o suffix_entries_from(Tail(suffixes), payload_offset + Len(Head(suffixes)[1]))

\* Stable insertion of e into a sequence sorted by hash (sort_by_key is stable).
RECURSIVE insert_by_hash(_, _)
insert_by_hash(sorted, e) ==
  IF sorted = <<>> THEN <<e>>
  ELSE IF Less64(e.hash, Head(sorted).hash) THEN <<e>> \o sorted
  ELSE <<Head(sorted)>> \o insert_by_hash(Tail(sorted), e)

RECURSIVE sort_by_hash(_, _)
sort_by_hash(sorted, rest) ==
  IF rest = <<>> THEN sorted
  ELSE sort_by_hash(insert_by_hash(sorted, Head(rest)), Tail(rest))

RECURSIVE insert_by_network(_, _)
insert_by_network(sorted, e) ==
  IF sorted = <<>> THEN <<e>>
  ELSE IF e[1] < Head(sorted)[1] THEN <<e>> \o sorted
  ELSE <<Head(sorted)>> \o insert_by_network(Tail(sorted), e)

RECURSIVE sort_by_network(_, _)
sort_by_network(sorted, rest) ==
  IF rest = <<>> THEN sorted
  ELSE sort_by_network(insert_by_network(sorted, Head(rest)), Tail(rest))

\* the order of [u8; 16]: byte by byte
RECURSIVE LessBytes(_, _)
LessBytes(a, b) ==
  IF a = <<>> \/ b = <<>> THEN Len(a) < Len(b)
  ELSE IF Head(a) # Head(b) THEN Head(a) < Head(b)
  ELSE LessBytes(Tail(a), Tail(b))

RECURSIVE insert_by_bytes(_, _)
insert_by_bytes(sorted, e) ==
  IF sorted = <<>> THEN <<e>>
  ELSE IF LessBytes(e[1], Head(sorted)[1]) THEN <<e>> \o sorted
  ELSE <<Head(sorted)>> \o insert_by_bytes(Tail(sorted), e)

RECURSIVE sort_by_bytes(_, _)
sort_by_bytes(sorted, rest) ==
  IF rest = <<>> THEN sorted
  ELSE sort_by_bytes(insert_by_bytes(sorted, Head(rest)), Tail(rest))

RECURSIVE concat_domains(_)
concat_domains(suffixes) ==
  IF suffixes = <<>> THEN <<>>
  ELSE Head(suffixes)[1] \o concat_domains(Tail(suffixes))

write_domain_index(rules) ==
  LET bucket_count == bucket_count_for(Len(rules.exact_domains)) IN
  [ exact_count |-> bucket_count,
    suffix_count |-> Len(rules.suffix_domains),
    buckets |-> fill_buckets([i \in 1..bucket_count |-> EmptyBucket],
                             rules.exact_domains),
    suffixes |-> sort_by_hash(<<>>, suffix_entries_from(rules.suffix_domains, 0)) ]

write_cidr_index(rules) ==
  LET v4_sorted == sort_by_network(<<>>, rules.v4_cidrs)
      v6_sorted == sort_by_bytes(<<>>, rules.v6_cidrs)
  IN
  [ v4_count |-> Len(v4_sorted),
    v6_count |-> Len(v6_sorted),
    v4 |-> [i \in 1..Len(v4_sorted) |->
              [network |-> v4_sorted[i][1], prefix_len |-> v4_sorted[i][2],
               target |-> as_u8(v4_sorted[i][3])]],
    v6 |-> [i \in 1..Len(v6_sorted) |->
              [network |-> v6_sorted[i][1], prefix_len |-> v6_sorted[i][2],
               target |-> as_u8(v6_sorted[i][3])]] ]

write_payload(rules) == concat_domains(rules.suffix_domains)

\* BinaryRuleWriter::write: the file as the reader sees it (the header
\* fields it reads, the sections, and the length in bytes).
write(rules) ==
  LET dom == write_domain_index(rules)
      cidr == write_cidr_index(rules)
      payload == write_payload(rules)
  IN  [ magic |-> MAGIC,
        version |-> FORMAT_VERSION,
        len |-> HEADER_SIZE
                + 16 + (16 * dom.exact_count) + (24 * dom.suffix_count)
                + 8 + (8 * cidr.v4_count) + (24 * cidr.v6_count)
                + (4 * Len(rules.geoip_countries))
                + 8 + (8 * Len(rules.exact_v4_ips)) + (24 * Len(rules.exact_v6_ips))
                + Len(payload),
        domain_count |-> Len(rules.exact_domains) + Len(rules.suffix_domains),
        cidr_count |-> Len(rules.v4_cidrs) + Len(rules.v6_cidrs),
        geoip_count |-> Len(rules.geoip_countries),
        ip_count |-> Len(rules.exact_v4_ips) + Len(rules.exact_v6_ips),
        domain_index |-> dom,
        cidr_index |-> cidr,
        payload |-> payload ]

(***************************************************************************)
(* IP addresses: [v |-> 4, a |-> u32] and [v |-> 6, b |-> 16 bytes].       *)
(* IPv4 addresses are taken below 2^31. Text with a colon is not used, so  *)
(* parse::<IpAddr> is the IPv4 parser.                                     *)
(***************************************************************************)
RECURSIVE split_dots(_)
split_dots(s) ==
  LET pos == find_dot(s) IN
  IF pos = 0 THEN <<s>>
  ELSE <<SubSeq(s, 1, pos - 1)>> \o split_dots(SubSeq(s, pos + 1, Len(s)))

RECURSIVE decimal_value(_, _)
decimal_value(acc, s) ==
  IF s = <<>> THEN acc ELSE decimal_value((10 * acc) + DigitVal(Head(s)), Tail(s))

\* One octet of a dotted quad: 1 to 3 digits, no leading zero, at most 255.
octet_ok(s) ==
  /\ Len(s) \in 1..3
  /\ \A i \in 1..Len(s) : IsDigit(s[i])
  /\ (Len(s) > 1 => s[1] # "0")
  /\ decimal_value(0, s) <= 255

NoIp == [v |-> 0, a |-> 0]

\* str::parse::<IpAddr>: NoIp stands for Err
parse_ip(s) ==
  LET parts == split_dots(s) IN
  IF Len(parts) = 4 /\ \A i \in 1..4 : octet_ok(parts[i])
  THEN [v |-> 4,
        a |-> (decimal_value(0, parts[1]) * 16777216)
              + (decimal_value(0, parts[2]) * 65536)
              + (decimal_value(0, parts[3]) * 256)
              + decimal_value(0, parts[4])]
  ELSE NoIp

RECURSIVE decimal_text(_)
decimal_text(n) ==
  IF n < 10 THEN <<Digits[n + 1]>>
  ELSE decimal_text(n \div 10) \o <<Digits[(n % 10) + 1]>>

\* IpAddr::to_string
ip_to_string(ip) ==
  decimal_text(ip.a \div 16777216) \o <<".">>
  \o decimal_text((ip.a \div 65536) % 256) \o <<".">>
  \o decimal_text((ip.a \div 256) % 256) \o <<".">>
  \o decimal_text(ip.a % 256)

(***************************************************************************)
(* BinaryRuleReader: m is the mapped file                                  *)
(***************************************************************************)
\* an open that takes a file of any version
reader_open_any_version(data) ==
  IF data.len < HEADER_SIZE THEN "InvalidHeaderSize"
  ELSE IF data.magic # MAGIC THEN "InvalidMagic"
  ELSE "Ok"

\* BinaryRuleReader::open / from_bytes on the file contents: "Ok" or the error
reader_open(data) ==
  IF data.len < HEADER_SIZE THEN "InvalidHeaderSize"
  ELSE validate(data)

RECURSIVE probe_exact(_, _, _, _)
probe_exact(buckets, hash, idx, left) ==
  IF left = 0 THEN NoTarget
  ELSE IF buckets[idx + 1].hash = Zero64 THEN NoTarget
  ELSE IF buckets[idx + 1].hash = hash THEN from_u8(buckets[idx + 1].target)
  ELSE probe_exact(buckets, hash, (idx + 1) % Len(buckets), left - 1)

lookup_exact_domain(m, hash) ==
  IF m.domain_count = 0 THEN NoTarget
  ELSE IF m.domain_index.exact_count = 0 THEN NoTarget
  ELSE probe_exact(m.domain_index.buckets, hash,
                   Mod64(hash, m.domain_index.exact_count),
                   m.domain_index.exact_count)

\* slice::binary_search_by_key: the index found (from 1), 0 for Err
RECURSIVE binary_search(_, _, _, _)
binary_search(entries, hash, left, right) ==
  IF left >= right THEN 0
  ELSE
    LET mid == left + ((right - left) \div 2) IN
    IF Less64(entries[mid + 1].hash, hash)
    THEN binary_search(entries, hash, mid + 1, right)
    ELSE IF Less64(hash, entries[mid + 1].hash)
    THEN binary_search(entries, hash, left, mid)
    ELSE mid + 1

\* A suffix lookup that trusts the hash and never reads the payload.
lookup_suffix_domain_by_hash(m, hash, suffix) ==
  IF m.domain_count = 0 THEN NoTarget
  ELSE IF m.domain_index.suffix_count = 0 THEN NoTarget
  ELSE
    LET idx == binary_search(m.domain_index.suffixes, hash, 0,
                             m.domain_index.suffix_count) IN
    IF idx = 0 THEN NoTarget
    ELSE from_u8(m.domain_index.suffixes[idx].target)

lookup_suffix_domain(m, hash, suffix) ==
  IF m.domain_count = 0 THEN NoTarget
  ELSE IF m.domain_index.suffix_count = 0 THEN NoTarget
  ELSE
    LET idx == binary_search(m.domain_index.suffixes, hash, 0,
                             m.domain_index.suffix_count) IN
    IF idx = 0 THEN NoTarget
    ELSE
      LET entry == m.domain_index.suffixes[idx] IN
      IF entry.payload_offset + entry.domain_len <= Len(m.payload)
         /\ SubSeq(m.payload, entry.payload_offset + 1,
                   entry.payload_offset + entry.domain_len) = suffix
      THEN from_u8(entry.target)
      ELSE NoTarget

\* The while-let loop of match_domain: every candidate follows a dot.
RECURSIVE match_suffixes(_, _)
match_suffixes(m, current) ==
  LET pos == find_dot(current) IN
  IF pos = 0 THEN NoTarget
  ELSE
    LET rest == SubSeq(current, pos + 1, Len(current))
        target == lookup_suffix_domain(m, fnv1a_hash(rest), rest)
    IN  IF target # NoTarget THEN target ELSE match_suffixes(m, rest)

\* A match_domain that hashes the query as it was typed.
reader_match_domain_as_typed(m, domain) ==
  LET exact == lookup_exact_domain(m, fnv1a_hash(domain))
  IN  IF exact # NoTarget THEN exact ELSE match_suffixes(m, domain)

reader_match_domain(m, domain) ==
  LET domain_lower == to_lowercase(domain)
      exact == lookup_exact_domain(m, fnv1a_hash(domain_lower))
  IN  IF exact # NoTarget THEN exact ELSE match_suffixes(m, domain_lower)

\* The index lookup is not implemented: None in every case.
lookup_exact_ip(m, ip) == NoTarget

\* (ip & mask) == (network & mask) with mask = !0u32 << (32 - prefix_len),
\* 0 for prefix_len = 0: the top prefix_len bits agree.
v4_masked_equal(ip, network, prefix_len) ==
  IF prefix_len = 0 THEN TRUE
  ELSE IF prefix_len <= 16
  THEN ((ip \div 65536) \div Pow2(16 - prefix_len))
       = ((network \div 65536) \div Pow2(16 - prefix_len))
  ELSE (ip \div Pow2(32 - prefix_len)) = (network \div Pow2(32 - prefix_len))

\* A scan that keeps the last matching entry, whatever its prefix length.
RECURSIVE scan_v4_last(_, _, _)
scan_v4_last(entries, ip, best) ==
  IF entries = <<>> THEN best[2]
  ELSE
    LET entry == Head(entries) IN
    IF v4_masked_equal(ip, entry.network, entry.prefix_len)
       /\ from_u8(entry.target) # NoTarget
    THEN scan_v4_last(Tail(entries), ip, <<entry.prefix_len, from_u8(entry.target)>>)
    ELSE scan_v4_last(Tail(entries), ip, best)

\* The scan of lookup_cidr_v4; best is <<prefix_len, target>>, <<-1, None>> at first.
RECURSIVE scan_v4(_, _, _)
scan_v4(entries, ip, best) ==
  IF entries = <<>> THEN best[2]
  ELSE
    LET entry == Head(entries) IN
    IF v4_masked_equal(ip, entry.network, entry.prefix_len)
       /\ ~(best[1] >= 0 /\ entry.prefix_len <= best[1])
       /\ from_u8(entry.target) # NoTarget
    THEN scan_v4(Tail(entries), ip, <<entry.prefix_len, from_u8(entry.target)>>)
    ELSE scan_v4(Tail(entries), ip, best)

lookup_cidr_v4(m, ip) ==
  IF m.cidr_count = 0 THEN NoTarget
  ELSE IF m.cidr_index.v4_count = 0 THEN NoTarget
  ELSE scan_v4(m.cidr_index.v4, ip.a, <<-1, NoTarget>>)

\* A prefix test that compares the full bytes and skips the remaining bits.
matches_full_bytes(ip, network, prefix_len) ==
  SubSeq(ip, 1, prefix_len \div 8) = SubSeq(network, 1, prefix_len \div 8)

matches_ipv6_cidr(ip, network, prefix_len) ==
  LET full_bytes == prefix_len \div 8
      remaining_bits == prefix_len % 8
  IN  /\ SubSeq(ip, 1, full_bytes) = SubSeq(network, 1, full_bytes)
      /\ (remaining_bits > 0 /\ full_bytes < 16) =>
            (ip[full_bytes + 1] \div Pow2(8 - remaining_bits))
            = (network[full_bytes + 1] \div Pow2(8 - remaining_bits))

RECURSIVE scan_v6(_, _, _)
scan_v6(entries, ip, best) ==
  IF entries = <<>> THEN best[2]
  ELSE
    LET entry == Head(entries) IN
    IF matches_ipv6_cidr(ip, entry.network, entry.prefix_len)
       /\ ~(best[1] >= 0 /\ entry.prefix_len <= best[1])
       /\ from_u8(entry.target) # NoTarget
    THEN scan_v6(Tail(entries), ip, <<entry.prefix_len, from_u8(entry.target)>>)
    ELSE scan_v6(Tail(entries), ip, best)

lookup_cidr_v6(m, ip) ==
  IF m.cidr_count = 0 THEN NoTarget
  ELSE IF m.cidr_index.v6_count = 0 THEN NoTarget
  ELSE scan_v6(m.cidr_index.v6, ip.b, <<-1, NoTarget>>)

lookup_cidr(m, ip) ==
  IF ip.v = 4 THEN lookup_cidr_v4(m, ip) ELSE lookup_cidr_v6(m, ip)

reader_match_ip(m, ip) ==
  LET exact == lookup_exact_ip(m, ip) IN
  IF exact # NoTarget THEN exact ELSE lookup_cidr(m, ip)

reader_match_input(m, ip_or_domain) ==
  LET ip == parse_ip(ip_or_domain) IN
  IF ip # NoIp THEN reader_match_ip(m, ip)
  ELSE reader_match_domain(m, ip_or_domain)

(***************************************************************************)
(* The rule files of the model                                             *)
(***************************************************************************)
QDomain == <<"a", ".", "b">>
QMixed == <<"A", ".", "b">>
QAddr == <<"1", ".", "0", ".", "0", ".", "1">>
\* 1.0.0.0
Net1 == 16777216

RulesA == add_v4_cidr(add_domain(IntermediateRules_new, QDomain, "Direct"),
                      Net1, 8, "Reject")
RulesB == add_v4_cidr(add_domain(IntermediateRules_new, QMixed, "Reject"),
                      Net1, 8, "Direct")

ImageA == write(RulesA)
ImageB == write(RulesB)
\* a file cut off inside the header, one with another magic, one of a later version
ImageShort == [ImageA EXCEPT !.len = 64]
ImageBadMagic == [ImageA EXCEPT !.magic = <<75, 50, 82, 85, 76, 69, 86, 50>>]
ImageNewer == [ImageA EXCEPT !.version = 2]
\* a file shorter than the magic
ImageTiny == [ImageA EXCEPT !.len = 4]

Images == <<ImageA, ImageB, ImageShort, ImageBadMagic, ImageNewer, ImageTiny>>

(***************************************************************************)
(* CachedBinaryReader                                                      *)
(***************************************************************************)
Threads == {1, 2}
\* calls of match_domain / match_ip / match_input made in a run
MaxCalls == 2
\* calls of reload_from_bytes made in a run
MaxReloads == 1
\* CachedReaderConfig::with_capacity(CacheCapacity)
CacheCapacity == 1

with_capacity(capacity) == [cache_capacity |-> capacity, cache_enabled |-> TRUE]
no_cache == [cache_capacity |-> 0, cache_enabled |-> FALSE]

\* CachedBinaryReader::open: the fallback of the default configuration
Fallback == "Proxy"

QueryTexts == {<<>>, QMixed, QAddr}
QueryAddrs == {parse_ip(QAddr)}

(***************************************************************************)
(* rule: DomainRule, IpRule, CidrRule                                      *)
(***************************************************************************)
DomainRule_new(target) ==
  [rule_type |-> "Domain", target |-> target, exacts |-> {}, suffixes |-> {}]

IpRule_new(target) == [rule_type |-> "IpMatch", target |-> target, ips |-> {}]

\* the Vec of Ipv4Net is read with any() alone and is kept as a set
CidrRule_new(target) == [rule_type |-> "IpCidr", target |-> target, v4_cidrs |-> {}]

\* DomainRule::add_pattern; the callers drop the error, the rule is as it was
DomainRule_add_pattern(rule, pattern) ==
  LET p == to_lowercase(trim(pattern)) IN
  IF p = <<>> THEN rule
  ELSE IF find_dot(p) = 0 /\ Head(p) # "." THEN rule
  ELSE IF Head(p) = "."
  THEN IF Tail(p) = <<>> THEN rule ELSE [rule EXCEPT !.suffixes = @ \cup {Tail(p)}]
  ELSE [rule EXCEPT !.exacts = @ \cup {p}]

\* DomainRule::match_suffix, the walk over the parent domains
RECURSIVE match_parent(_, _)
match_parent(suffixes, current) ==
  IF find_dot(current) = 0 THEN FALSE
  ELSE IF SubSeq(current, find_dot(current) + 1, Len(current)) \in suffixes THEN TRUE
  ELSE match_parent(suffixes, SubSeq(current, find_dot(current) + 1, Len(current)))

match_suffix(rule, domain) ==
  domain \in rule.suffixes \/ match_parent(rule.suffixes, domain)

match_exact(rule, domain) == domain \in rule.exacts

\* <DomainRule as Rule>::match_input
DomainRule_match_input(rule, ip, domain) ==
  IF ip # NoIp \/ domain = <<>> THEN FALSE
  ELSE match_exact(rule, to_lowercase(domain)) \/ match_suffix(rule, to_lowercase(domain))

\* IpRule::add_pattern: the text as typed, once it parses
IpRule_add_pattern(rule, pattern) ==
  IF parse_ip(trim(pattern)) = NoIp THEN rule
  ELSE [rule EXCEPT !.ips = @ \cup {to_lowercase(trim(pattern))}]

\* IpRule::add_ip of the batch adds: no parse
add_ip(rule, ip) ==
  IF to_lowercase(trim(ip)) = <<>> THEN rule
  ELSE [rule EXCEPT !.ips = @ \cup {to_lowercase(trim(ip))}]

IpRule_contains(rule, ip) == to_lowercase(ip) \in rule.ips

IpRule_match_input(rule, ip, domain) ==
  IF ip = NoIp THEN FALSE ELSE IpRule_contains(rule, ip_to_string(ip))

\* the 1-based position of the first slash, 0 when there is none
find_slash(s) == IF \E i \in 1..Len(s) : s[i] = "/"
                 THEN CHOOSE i \in 1..Len(s) :
                        s[i] = "/" /\ \A j \in 1..(i - 1) : s[j] # "/"
                 ELSE 0

\* str::parse::<Ipv4Net>: address, slash, prefix length up to 32; NoIp for Err
parse_v4net(s) ==
  LET pos == find_slash(s)
      len == SubSeq(s, pos + 1, Len(s)) IN
  IF pos = 0 \/ len = <<>> \/ Len(len) > 2 \/ \E i \in 1..Len(len) : ~IsDigit(len[i])
  THEN NoIp
  ELSE IF parse_ip(SubSeq(s, 1, pos - 1)) = NoIp \/ decimal_value(0, len) > 32 THEN NoIp
  ELSE [v |-> 4, a |-> parse_ip(SubSeq(s, 1, pos - 1)).a, prefix_len |-> decimal_value(0, len)]

\* CidrRule::add_pattern
CidrRule_add_pattern(rule, pattern) ==
  IF parse_v4net(trim(pattern)) = NoIp THEN rule
  ELSE [rule EXCEPT !.v4_cidrs = @ \cup {parse_v4net(trim(pattern))}]

\* Ipv4Net::network and broadcast
net_network(net) == (net.a \div Pow2(32 - net.prefix_len)) * Pow2(32 - net.prefix_len)
net_broadcast(net) == net_network(net) + Pow2(32 - net.prefix_len) - 1

\* CidrRule::contains_v4
contains_v4(rule, ip) ==
  \E net \in rule.v4_cidrs : net_network(net) <= ip.a /\ ip.a <= net_broadcast(net)

CidrRule_match_input(rule, ip, domain) ==
  IF ip = NoIp THEN FALSE ELSE contains_v4(rule, ip)

\* dyn Rule::match_input
Rule_match_input(rule, ip, domain) ==
  CASE rule.rule_type = "Domain" -> DomainRule_match_input(rule, ip, domain)
    [] rule.rule_type = "IpMatch" -> IpRule_match_input(rule, ip, domain)
    [] rule.rule_type = "IpCidr" -> CidrRule_match_input(rule, ip, domain)

(***************************************************************************)
(* RuleSet                                                                 *)
(***************************************************************************)
RuleConfig_new(name, fallback_target) ==
  [name |-> name, fallback_target |-> fallback_target]

\* a quick_cache Cache<u64, Target>: the pairs <<key, target>> it holds; the
\* key is the text hash_key is taken of
NoCache == [enabled |-> FALSE, entries |-> {}]
Cache_new == [enabled |-> TRUE, entries |-> {}]
quick_has(c, key) == \E e \in c.entries : e[1] = key
quick_get(c, key) == (CHOOSE e \in c.entries : e[1] = key)[2]
quick_insert(c, key, target) ==
  [c EXCEPT !.entries = {e \in @ : e[1] # key} \cup {<<key, target>>}]
quick_clear(c) == [c EXCEPT !.entries = {}]

\* RuleSet::new
RuleSet_new(config) ==
  [ rules |-> <<>>, config |-> config,
    direct_domain |-> DomainRule_new("Direct"),
    direct_ip |-> IpRule_new("Direct"),
    direct_cidr |-> CidrRule_new("Direct"),
    proxy_domain |-> DomainRule_new("Proxy"),
    proxy_ip |-> IpRule_new("Proxy"),
    proxy_cidr |-> CidrRule_new("Proxy"),
    reject_domain |-> DomainRule_new("Reject"),
    domain_cache |-> NoCache, ip_cache |-> NoCache ]

\* RuleSet::with_cache_size
with_cache_size(config) ==
  [RuleSet_new(config) EXCEPT !.domain_cache = Cache_new, !.ip_cache = Cache_new]

\* the static rules from position i on: the target of the first that matches
RECURSIVE static_rules(_, _, _, _)
static_rules(set, i, ip, domain) ==
  IF i > Len(set.rules) THEN set.config.fallback_target
  ELSE IF Rule_match_input(set.rules[i], ip, domain) THEN set.rules[i].target
  ELSE static_rules(set, i + 1, ip, domain)

\* the dynamic rules asked in the order of match_ip: the IP rules, then the
\* CIDR rules, then the domain rules
match_input_ip_first(set, ip, domain) ==
  IF IpRule_match_input(set.direct_ip, ip, domain) THEN "Direct"
  ELSE IF IpRule_match_input(set.proxy_ip, ip, domain) THEN "Proxy"
  ELSE IF CidrRule_match_input(set.direct_cidr, ip, domain) THEN "Direct"
  ELSE IF CidrRule_match_input(set.proxy_cidr, ip, domain) THEN "Proxy"
  ELSE IF DomainRule_match_input(set.direct_domain, ip, domain) THEN "Direct"
  ELSE IF DomainRule_match_input(set.reject_domain, ip, domain) THEN "Reject"
  ELSE IF DomainRule_match_input(set.proxy_domain, ip, domain) THEN "Proxy"
  ELSE static_rules(set, 1, ip, domain)

\* RuleSet::match_input once the text is lower case and parsed
match_input_parsed(set, ip, domain) ==
  IF IpRule_match_input(set.direct_ip, ip, domain) THEN "Direct"
  ELSE IF CidrRule_match_input(set.direct_cidr, ip, domain) THEN "Direct"
  ELSE IF DomainRule_match_input(set.direct_domain, ip, domain) THEN "Direct"
  ELSE IF DomainRule_match_input(set.reject_domain, ip, domain) THEN "Reject"
  ELSE IF IpRule_match_input(set.proxy_ip, ip, domain) THEN "Proxy"
  ELSE IF CidrRule_match_input(set.proxy_cidr, ip, domain) THEN "Proxy"
  ELSE IF DomainRule_match_input(set.proxy_domain, ip, domain) THEN "Proxy"
  ELSE static_rules(set, 1, ip, domain)

\* RuleSet::match_input
match_input(set, ip_or_domain) ==
  IF ip_or_domain = <<>> THEN set.config.fallback_target
  ELSE match_input_parsed(set, parse_ip(to_lowercase(ip_or_domain)),
                          IF parse_ip(to_lowercase(ip_or_domain)) = NoIp
                          THEN to_lowercase(ip_or_domain) ELSE <<>>)

\* RuleSet::match_host
match_host(set, host) == match_input(set, host)

\* match_domain_uncached, the static rules of type Domain from position i on
RECURSIVE static_domain_rules(_, _, _)
static_domain_rules(set, i, domain) ==
  IF i > Len(set.rules) THEN set.config.fallback_target
  ELSE IF set.rules[i].rule_type = "Domain"
          /\ Rule_match_input(set.rules[i], NoIp, domain) THEN set.rules[i].target
  ELSE static_domain_rules(set, i + 1, domain)

match_domain_uncached(set, domain) ==
  IF DomainRule_match_input(set.direct_domain, NoIp, domain) THEN "Direct"
  ELSE IF DomainRule_match_input(set.reject_domain, NoIp, domain) THEN "Reject"
  ELSE IF DomainRule_match_input(set.proxy_domain, NoIp, domain) THEN "Proxy"
  ELSE static_domain_rules(set, 1, domain)

\* RuleSet::match_domain: [set, res], the set with what the call cached
match_domain(set, domain) ==
  IF ~set.domain_cache.enabled THEN [set |-> set, res |-> match_domain_uncached(set, domain)]
  ELSE IF quick_has(set.domain_cache, domain)
  THEN [set |-> set, res |-> quick_get(set.domain_cache, domain)]
  ELSE [set |-> [set EXCEPT !.domain_cache =
                   quick_insert(@, domain, match_domain_uncached(set, domain))],
        res |-> match_domain_uncached(set, domain)]

\* match_ip_uncached, the static rules of the IP types from position i on
RECURSIVE static_ip_rules(_, _, _, _)
static_ip_rules(set, i, ip, ip_str) ==
  IF i > Len(set.rules) THEN set.config.fallback_target
  ELSE IF set.rules[i].rule_type \in {"IpCidr", "IpMatch", "GeoIP"}
          /\ Rule_match_input(set.rules[i], ip, ip_str) THEN set.rules[i].target
  ELSE static_ip_rules(set, i + 1, ip, ip_str)

match_ip_uncached(set, ip, ip_str) ==
  IF IpRule_match_input(set.direct_ip, ip, ip_str) THEN "Direct"
  ELSE IF IpRule_match_input(set.proxy_ip, ip, ip_str) THEN "Proxy"
  ELSE IF CidrRule_match_input(set.direct_cidr, ip, ip_str) THEN "Direct"
  ELSE IF CidrRule_match_input(set.proxy_cidr, ip, ip_str) THEN "Proxy"
  ELSE static_ip_rules(set, 1, ip, ip_str)

\* RuleSet::match_ip
match_ip(set, ip) ==
  IF ~set.ip_cache.enabled
  THEN [set |-> set, res |-> match_ip_uncached(set, ip, ip_to_string(ip))]
  ELSE IF quick_has(set.ip_cache, ip_to_string(ip))
  THEN [set |-> set, res |-> quick_get(set.ip_cache, ip_to_string(ip))]
  ELSE [set |-> [set EXCEPT !.ip_cache =
                   quick_insert(@, ip_to_string(ip),
                                match_ip_uncached(set, ip, ip_to_string(ip)))],
        res |-> match_ip_uncached(set, ip, ip_to_string(ip))]

clear_domain_cache(set) ==
  IF set.domain_cache.enabled THEN [set EXCEPT !.domain_cache = quick_clear(@)] ELSE set

clear_ip_cache(set) ==
  IF set.ip_cache.enabled THEN [set EXCEPT !.ip_cache = quick_clear(@)] ELSE set

\* RuleSet::add_rule
add_rule(set, rule) == [set EXCEPT !.rules = Append(@, rule)]

add_direct_domain(set, domain) ==
  clear_domain_cache([set EXCEPT !.direct_domain = DomainRule_add_pattern(@, domain)])

add_proxy_domain(set, domain) ==
  clear_domain_cache([set EXCEPT !.proxy_domain = DomainRule_add_pattern(@, domain)])

add_reject_domain(set, domain) ==
  clear_domain_cache([set EXCEPT !.reject_domain = DomainRule_add_pattern(@, domain)])

add_direct_ip(set, ip) ==
  clear_ip_cache([set EXCEPT !.direct_ip = IpRule_add_pattern(@, ip)])

add_proxy_ip(set, ip) ==
  clear_ip_cache([set EXCEPT !.proxy_ip = IpRule_add_pattern(@, ip)])

add_direct_cidr(set, cidr) ==
  clear_ip_cache([set EXCEPT !.direct_cidr = CidrRule_add_pattern(@, cidr)])

add_proxy_cidr(set, cidr) ==
  clear_ip_cache([set EXCEPT !.proxy_cidr = CidrRule_add_pattern(@, cidr)])

\* the batch adds, over the list from its head
RECURSIVE add_patterns(_, _)
add_patterns(rule, domains) ==
  IF domains = <<>> THEN rule
  ELSE add_patterns(DomainRule_add_pattern(rule, Head(domains)), Tail(domains))

RECURSIVE add_ips(_, _)
add_ips(rule, ips) ==
  IF ips = <<>> THEN rule ELSE add_ips(add_ip(rule, Head(ips)), Tail(ips))

add_direct_domains(set, domains) ==
  clear_domain_cache([set EXCEPT !.direct_domain = add_patterns(@, domains)])

add_proxy_domains(set, domains) ==
  clear_domain_cache([set EXCEPT !.proxy_domain = add_patterns(@, domains)])

add_direct_ips(set, ips) ==
  clear_ip_cache([set EXCEPT !.direct_ip = add_ips(@, ips)])

add_proxy_ips(set, ips) ==
  clear_ip_cache([set EXCEPT !.proxy_ip = add_ips(@, ips)])

\* RuleSet::rule_count
rule_count(set) ==
  Cardinality(set.direct_domain.exacts) + Cardinality(set.direct_domain.suffixes)
  + Cardinality(set.proxy_domain.exacts) + Cardinality(set.proxy_domain.suffixes)
  + Cardinality(set.reject_domain.exacts) + Cardinality(set.reject_domain.suffixes)
  + Cardinality(set.direct_ip.ips) + Cardinality(set.proxy_ip.ips)
  + Cardinality(set.direct_cidr.v4_cidrs) + Cardinality(set.proxy_cidr.v4_cidrs)
  + Len(set.rules)

(***************************************************************************)
(* global: GLOBAL_RULESET and INIT                                         *)
(***************************************************************************)
RuleSetTypes == {"Global", "CnBlacklist", "CnWhitelist"}

\* RuleSetType::config
type_config(rule_type) ==
  CASE rule_type = "Global" -> RuleConfig_new("global", "Proxy")
    [] rule_type = "CnBlacklist" -> RuleConfig_new("cn_blacklist", "Direct")
    [] rule_type = "CnWhitelist" -> RuleConfig_new("cn_whitelist", "Proxy")

\* the ranges of add_local_ip_rules below 128.0.0.0: 127.0.0.0/8 and
\* 10.0.0.0/8 (addresses are kept under 2^31)
LocalRanges ==
  << <<"1","2","7",".","0",".","0",".","0","/","8">>,
     <<"1","0",".","0",".","0",".","0","/","8">> >>

RECURSIVE add_cidr_patterns(_, _)
add_cidr_patterns(rule, patterns) ==
  IF patterns = <<>> THEN rule
  ELSE add_cidr_patterns(CidrRule_add_pattern(rule, Head(patterns)), Tail(patterns))

add_local_ip_rules(set) ==
  add_rule(set, add_cidr_patterns(CidrRule_new("Direct"), LocalRanges))

\* Option<RuleSet>
NoRuleSet == [some |-> FALSE, set |-> RuleSet_new(RuleConfig_new("none", "Proxy"))]
Some(set) == [some |-> TRUE, set |-> set]

\* the process before any global function is called; init is INIT's state
GlobalStart == [ruleset |-> NoRuleSet, init |-> FALSE]

reload_ruleset_with_type(g, rule_type) ==
  [g EXCEPT !.ruleset = Some(add_local_ip_rules(RuleSet_new(type_config(rule_type))))]

reload_ruleset(g) == reload_ruleset_with_type(g, "Global")

\* RuleSet::parse_rules on a rule text given by its sections, each a rule
\* header already read: [rule_type, target, patterns]
RECURSIVE parse_rules(_, _)
parse_rules(set, sections) ==
  IF sections = <<>> THEN set
  ELSE parse_rules(
         add_rule(set,
                  IF Head(sections).rule_type = "Domain"
                  THEN add_patterns(DomainRule_new(Head(sections).target),
                                    Head(sections).patterns)
                  ELSE add_cidr_patterns(CidrRule_new(Head(sections).target),
                                         Head(sections).patterns)),
         Tail(sections))

\* RuleSet::from_reader
from_reader(reader, cfg) == parse_rules(RuleSet_new(cfg), reader)

reload_ruleset_from_reader(g, reader, cfg) ==
  [g EXCEPT !.ruleset = Some(add_local_ip_rules(from_reader(reader, cfg)))]

\* INIT.call_once(|| reload_ruleset())
ensure_initialized(g) ==
  IF g.init THEN g ELSE [reload_ruleset(g) EXCEPT !.init = TRUE]

\* global::match_rule: [g, res]
match_rule(g, ip_or_domain) ==
  [g |-> ensure_initialized(g),
   res |-> IF ensure_initialized(g).ruleset.some
           THEN match_input(ensure_initialized(g).ruleset.set, ip_or_domain)
           ELSE "Proxy"]

\* global::add_direct_domain and the like: method is the RuleSet batch add
\* applied to the global set
global_add_direct_domain(g, domains) ==
  IF ~ensure_initialized(g).ruleset.some THEN ensure_initialized(g)
  ELSE [ensure_initialized(g) EXCEPT !.ruleset.set = add_direct_domains(@, domains)]

global_add_proxy_domain(g, domains) ==
  IF ~ensure_initialized(g).ruleset.some THEN ensure_initialized(g)
  ELSE [ensure_initialized(g) EXCEPT !.ruleset.set = add_proxy_domains(@, domains)]

global_add_direct_ip(g, ips) ==
  IF ~ensure_initialized(g).ruleset.some THEN ensure_initialized(g)
  ELSE [ensure_initialized(g) EXCEPT !.ruleset.set = add_direct_ips(@, ips)]

global_add_proxy_ip(g, ips) ==
  IF ~ensure_initialized(g).ruleset.some THEN ensure_initialized(g)
  ELSE [ensure_initialized(g) EXCEPT !.ruleset.set = add_proxy_ips(@, ips)]

VARIABLES
  readers,     \* the BinaryRuleReader objects built so far: readers[i] is the
               \* index in Images of the file the i-th one maps
  inner,       \* ArcSwap<BinaryRuleReader>: the index in readers of the installed one
  cache,       \* the entries of the quick_cache: key -> [val, from, by]; from (the
               \* reader the value was computed on) and by (the operation that
               \* computed it) are history, val is the stored Option<Target>
  has_cache,   \* self.cache.is_some()
  generation,  \* AtomicU64
  thr,         \* per thread: the call in progress, its position and its locals
  calls,       \* matching calls begun
  reloads,     \* reload calls begun
  completed,   \* reload calls that have returned Ok
  overlap,     \* the threads whose reload in progress has run beside a matching call
  mgr,         \* RemoteRuleManager: [etag, has_reader]; its reader is the
               \* CachedBinaryReader of the variables above
  fs,          \* the cache directory: rules.k2r, rules.k2r.etag, rules.k2r.meta
               \* and rules.k2r.tmp
  origin,      \* what the remote URL serves now: an index in Publications
  now,         \* SystemTime::now(), in seconds
  last,        \* the last call made on the manager and what it returned
  rules,       \* the IntermediateRules being filled for a BinaryRuleWriter
  slices,      \* SliceWriter.slices: the slices added so far, in order
  asked,       \* the last query put to a reader of the file built from rules
               \* or slices, or to a RuleSet, and its answer
  ruleset,     \* a RuleSet: its seven dynamic rules, static rules and caches
  global       \* GLOBAL_RULESET and INIT of the global API

remote == <<mgr, fs, origin, now, last>>
builder == <<rules, slices, asked>>
sets == <<ruleset, global>>

vars == <<readers, inner, cache, has_cache, generation, thr, calls, reloads,
          completed, overlap, mgr, fs, origin, now, last, rules, slices, asked,
          ruleset, global>>

MatchOps == {"match_domain", "match_ip", "match_input"}

Idle == [pc |-> "idle", op |-> "none", arg |-> <<>>, res |-> "none",
         hit |-> FALSE, began |-> 0, from |-> 0, by |-> "none", after |-> 0]

\* CacheKey::new: the hash of the lower-cased query. The 64-bit ahash is
\* taken to be free of collisions on the queries of the model, so the key is
\* the lower-cased text itself.
CacheKey_new(query) == to_lowercase(query)

\* the text a call hashes: the query, or ip.to_string() in match_ip
key_text(op, arg) == IF op = "match_ip" THEN ip_to_string(arg) ELSE arg

\* the lookup a call makes on the reader it loaded
reader_lookup(m, op, arg) ==
  CASE op = "match_domain" -> reader_match_domain(m, arg)
    [] op = "match_ip" -> reader_match_ip(m, arg)
    [] op = "match_input" -> reader_match_input(m, arg)

\* the early return of match_domain and match_input on an empty query
returns_early(op, arg) == op # "match_ip" /\ arg = <<>>

cache_get(c, enabled, key) ==
  IF enabled /\ key \in DOMAIN c THEN <<TRUE, c[key]>> ELSE <<FALSE, NoTarget>>

\* the maps quick_cache may hold after insert(key, e): the map with the
\* entry, less one entry of the cache's choice when that is over capacity
cache_insert(c, capacity, key, e) ==
  LET full == [k \in DOMAIN c \cup {key} |-> IF k = key THEN e ELSE c[k]] IN
  IF Cardinality(DOMAIN full) <= capacity THEN {full}
  ELSE {[k \in DOMAIN full \ {victim} |-> full[k]] : victim \in DOMAIN full}

\* a clear that drops nothing
cache_keep(c) == c

cache_clear(c) == <<>>

\* an increment by two
fetch_add_twice(g) == g + 2

fetch_add(g) == g + 1

\* CacheStats.len
cache_stats_len == IF has_cache THEN Cardinality(DOMAIN cache) ELSE 0

NoFile == 0
NoMeta == [exists |-> FALSE, last_updated |-> 0, etag |-> "None"]
EmptyDir == [rules |-> NoFile, etag |-> "None", meta |-> NoMeta, tmp |-> NoFile]
NoQuery == [op |-> "none", arg |-> <<>>, file |-> "none", res |-> NoTarget]
NoCall == [op |-> "new", res |-> "none", status |-> "none", sent |-> "None",
           stored |-> FALSE, prev_stored |-> FALSE, io |-> "none"]

InMatch(t) == thr[t].op \in MatchOps /\ thr[t].pc # "idle"
InReload(t) == thr[t].op = "reload" /\ thr[t].pc # "idle"

Init ==
  /\ \E config \in {with_capacity(CacheCapacity), no_cache} :
       has_cache = (config.cache_enabled /\ config.cache_capacity > 0)
  /\ reader_open(Images[1]) = "Ok" /\ readers = <<1>>
  /\ inner = 1
  /\ cache = <<>>
  /\ generation = 0
  /\ thr = [t \in Threads |-> Idle]
  /\ calls = 0
  /\ reloads = 0
  /\ completed = 0
  /\ overlap = {}
  /\ mgr = [etag |-> "None", has_reader |-> FALSE]
  /\ fs = EmptyDir
  /\ origin = 1
  /\ now = 0
  /\ last = NoCall
  /\ rules = IntermediateRules_new
  /\ slices = <<>>
  /\ asked = NoQuery
  /\ ruleset = RuleSet_new(RuleConfig_new("custom", "Proxy"))
  /\ global = GlobalStart

\* The call begins: the empty-query return, or the cache probe.
Probe(t, op, arg) ==
  /\ thr[t].pc = "idle"
  /\ calls < MaxCalls
  /\ calls' = calls + 1
  /\ overlap' = overlap \cup {u \in Threads : InReload(u)}
  /\ LET got == cache_get(cache, has_cache, CacheKey_new(key_text(op, arg)))
         call == [thr[t] EXCEPT !.op = op, !.arg = arg, !.began = inner]
     IN  thr' = [thr EXCEPT ![t] =
           IF returns_early(op, arg)
           THEN [call EXCEPT !.pc = "done", !.res = Fallback,
                             !.from = inner, !.by = op]
           ELSE IF got[1]
           THEN [call EXCEPT !.pc = "done", !.hit = TRUE,
                             !.res = unwrap_or(got[2].val, Fallback),
                             !.from = got[2].from, !.by = got[2].by]
           ELSE [call EXCEPT !.pc = "load"]]
  /\ UNCHANGED <<readers, inner, cache, has_cache, generation, reloads, completed, remote, builder, sets>>

\* Cache miss: self.inner.load() and the lookup on the loaded reader.
Load(t) ==
  /\ thr[t].pc = "load"
  /\ overlap' = overlap \cup {u \in Threads : InReload(u)}
  /\ thr' = [thr EXCEPT ![t] =
       [@ EXCEPT !.pc = IF has_cache THEN "insert" ELSE "done",
                 !.from = inner, !.by = thr[t].op,
                 !.res = IF has_cache
                         THEN reader_lookup(Images[readers[inner]], thr[t].op, thr[t].arg)
                         ELSE unwrap_or(reader_lookup(Images[readers[inner]],
                                                      thr[t].op, thr[t].arg), Fallback)]]
  /\ UNCHANGED <<readers, inner, cache, has_cache, generation, calls, reloads, completed, remote, builder, sets>>

\* cache.insert(key.hash, result), and the value to return
Insert(t) ==
  /\ thr[t].pc = "insert"
  /\ overlap' = overlap \cup {u \in Threads : InReload(u)}
  /\ cache' \in cache_insert(cache, CacheCapacity,
                             CacheKey_new(key_text(thr[t].op, thr[t].arg)),
                             [val |-> thr[t].res, from |-> thr[t].from, by |-> thr[t].by])
  /\ thr' = [thr EXCEPT ![t] = [@ EXCEPT !.pc = "done",
                                         !.res = unwrap_or(thr[t].res, Fallback)]]
  /\ UNCHANGED <<readers, inner, has_cache, generation, calls, reloads, completed, remote, builder, sets>>

\* reload_from_bytes: build the reader; on success store it in self.inner
ReloadStore(t, img) ==
  /\ thr[t].pc = "idle"
  /\ reloads < MaxReloads
  /\ reloads' = reloads + 1
  /\ overlap' = (overlap \ {t}) \cup (IF \E u \in Threads : InMatch(u) THEN {t} ELSE {})
  /\ LET opened == reader_open(Images[img])
         call == [thr[t] EXCEPT !.op = "reload", !.began = inner]
     IN  IF opened = "Ok"
         THEN /\ readers' = Append(readers, img)
              /\ inner' = Len(readers) + 1
              /\ thr' = [thr EXCEPT ![t] = [call EXCEPT !.pc = "gen",
                                                        !.from = Len(readers) + 1]]
         ELSE /\ thr' = [thr EXCEPT ![t] = [call EXCEPT !.pc = "done", !.res = opened]]
              /\ UNCHANGED <<readers, inner>>
  /\ UNCHANGED <<cache, has_cache, generation, calls, completed, remote, builder, sets>>

\* self.generation.fetch_add(1, SeqCst)
ReloadGeneration(t) ==
  /\ thr[t].pc = "gen"
  /\ generation' = fetch_add(generation)
  /\ thr' = [thr EXCEPT ![t] = [@ EXCEPT !.pc = "clear"]]
  /\ UNCHANGED <<readers, inner, cache, has_cache, calls, reloads, completed, overlap, remote, builder, sets>>

\* cache.clear(), and Ok(()) to return
ReloadClear(t) ==
  /\ thr[t].pc = "clear"
  /\ cache' = IF has_cache THEN cache_clear(cache) ELSE cache
  /\ thr' = [thr EXCEPT ![t] = [@ EXCEPT !.pc = "done", !.res = "Ok"]]
  /\ UNCHANGED <<readers, inner, has_cache, generation, calls, reloads, completed, overlap, remote, builder, sets>>

\* The call returns to its caller. after is the reader this thread installed
\* by the reload that has just returned Ok, 0 after any other call.
Return(t) ==
  /\ thr[t].pc = "done"
  /\ completed' = IF thr[t].op = "reload" /\ thr[t].res = "Ok"
                  THEN completed + 1 ELSE completed
  /\ thr' = [thr EXCEPT ![t] =
       [Idle EXCEPT !.after = IF thr[t].op = "reload" /\ thr[t].res = "Ok"
                              THEN thr[t].from
                              ELSE IF thr[t].op = "reload" THEN thr[t].after ELSE 0]]
  /\ overlap' = overlap \ {t}
  /\ UNCHANGED <<readers, inner, cache, has_cache, generation, calls, reloads, remote, builder, sets>>

Next ==
  \/ \E t \in Threads, op \in {"match_domain", "match_input"}, arg \in QueryTexts :
       Probe(t, op, arg)
  \/ \E t \in Threads, arg \in QueryAddrs : Probe(t, "match_ip", arg)
  \/ \E t \in Threads : Load(t)
  \/ \E t \in Threads : Insert(t)
  \/ \E t \in Threads, img \in 1..Len(Images) : ReloadStore(t, img)
  \/ \E t \in Threads : ReloadGeneration(t)
  \/ \E t \in Threads : ReloadClear(t)
  \/ \E t \in Threads : Return(t)

Spec == Init /\ [][Next]_vars

(***************************************************************************)
(* RemoteRuleManager. update() and init() take &mut self, so no other call *)
(* on the manager runs beside them: each call is one step. The operators   *)
(* work on the manager and its cache directory as one record w:            *)
(*   etag, has_reader              the manager's fields                    *)
(*   readers, inner, cache, generation   its CachedBinaryReader            *)
(*   rules, etag_file, meta, tmp   the files (an index in Images, a tag,   *)
(*                                 the metadata record)                    *)
(*   reqs                          the requests the call in progress has   *)
(*                                 made: the If-None-Match header sent     *)
(*                                 and the status that came back           *)
(* Entity tags are opaque strings without white space. io names the one    *)
(* file operation that fails in the call, "none" when all succeed; a       *)
(* failed write leaves its file as it was.                                 *)
(***************************************************************************)
\* successful installs of a reader by the manager in a run
MaxInstalls == 2
\* What the URL may serve: the entity tag it sends ("None": no ETag header)
\* and the body (gzip: starts with 0x1f 0x8b; intact: the gzip stream
\* decodes; image: the index in Images of the decoded or plain bytes).
Publications ==
  << [etag |-> "e1", gzip |-> FALSE, intact |-> TRUE, image |-> 1],
     [etag |-> "e3", gzip |-> FALSE, intact |-> TRUE, image |-> 4],
     [etag |-> "None", gzip |-> TRUE, intact |-> FALSE, image |-> 2],
     [etag |-> "e2", gzip |-> TRUE, intact |-> TRUE, image |-> 2],
     [etag |-> "e4", gzip |-> FALSE, intact |-> TRUE, image |-> 5] >>

IoPoints == {"none", "etag_write", "tmp_write", "rename", "open", "meta_save"}
NetOutcomes == {"ok", "transport", "status"}

World ==
  [ etag |-> mgr.etag, has_reader |-> mgr.has_reader,
    readers |-> readers, inner |-> inner, cache |-> cache, generation |-> generation,
    rules |-> fs.rules, etag_file |-> fs.etag, meta |-> fs.meta, tmp |-> fs.tmp,
    reqs |-> <<>> ]

\* A fallible step gives r = [w, res]: the state it leaves and "Ok" or the
\* error. After the ? on a step the call returns r when res is an error.

\* BinaryRuleReader::open(path) on the rules file
open_rules(w, io) ==
  [w |-> w, res |-> IF io = "open" THEN "Io" ELSE reader_open(Images[w.rules])]

\* reload, after the open: store, fetch_add, clear
install_reader(opened) ==
  IF opened.res # "Ok" THEN opened
  ELSE LET w == opened.w IN
  [w |-> [w EXCEPT !.readers = Append(@, w.rules),
                   !.inner = Len(w.readers) + 1,
                   !.generation = fetch_add(@),
                   !.cache = IF has_cache THEN cache_clear(@) ELSE @],
   res |-> "Ok"]

\* CachedBinaryReader::reload(path), run to its end
cached_reload(w, io) == install_reader(open_rules(w, io))

\* open_with_config, after the open
first_reader(opened) ==
  IF opened.res # "Ok" THEN opened
  ELSE LET w == opened.w IN
  [w |-> [w EXCEPT !.has_reader = TRUE, !.readers = <<w.rules>>, !.inner = 1,
                   !.generation = 0, !.cache = <<>>],
   res |-> "Ok"]

\* CachedBinaryReader::open_with_config(path, reader_config, fallback)
open_with_config(w, io) == first_reader(open_rules(w, io))

load_from_file(w, io) ==
  IF w.has_reader THEN cached_reload(w, io) ELSE open_with_config(w, io)

is_gzip(body) == body.gzip

validate_binary(data) ==
  IF data.len < Len(MAGIC) THEN "FileTooSmall"
  ELSE IF data.magic # MAGIC THEN "InvalidMagic"
  ELSE "Ok"

\* process_response, after the body is read and decompressed
validated(w, body) == [w |-> w, res |-> validate_binary(Images[body.image])]

\* process_response: the temporary file, the rename, the load
replace_rules(valid, body, io) ==
  IF valid.res # "Ok" THEN valid
  ELSE IF io = "tmp_write" THEN [w |-> valid.w, res |-> "Io"]
  ELSE IF io = "rename" THEN [w |-> [valid.w EXCEPT !.tmp = body.image], res |-> "Io"]
  ELSE load_from_file([valid.w EXCEPT !.rules = body.image, !.tmp = NoFile], io)

process_response(w, body, io) ==
  IF is_gzip(body) /\ ~body.intact THEN [w |-> w, res |-> "GzipFailed"]
  ELSE replace_rules(validated(w, body), body, io)

\* "Save new ETag if present": self.etag, then the sidecar file
save_etag(w, header, io) ==
  IF header = "None" THEN [w |-> w, res |-> "Ok"]
  ELSE IF io = "etag_write" THEN [w |-> [w EXCEPT !.etag = header], res |-> "Io"]
  ELSE [w |-> [w EXCEPT !.etag = header, !.etag_file = header], res |-> "Ok"]

\* UpdateMetadata::now_with_etag(self.etag.clone()).save(&self.metadata_path)
save_metadata(w, time, io) ==
  IF io = "meta_save" THEN [w |-> w, res |-> "Io"]
  ELSE [w |-> [w EXCEPT !.meta = [exists |-> TRUE, last_updated |-> time,
                                  etag |-> w.etag]],
        res |-> "Ok"]

\* a request that never carries the header
if_none_match_nothing(etag) == "None"

\* the header update() sets on its request
if_none_match(etag) == etag

\* request.call() as update() and download_and_update() tell its outcomes
\* apart: a transport error, an error status, the status 304, a response.
http_call(pub, sent, net) ==
  IF net = "transport" THEN [status |-> "transport", etag |-> "None"]
  ELSE IF net = "status" THEN [status |-> "500", etag |-> "None"]
  ELSE IF sent # "None" /\ sent = pub.etag THEN [status |-> "304", etag |-> pub.etag]
  ELSE [status |-> "200", etag |-> pub.etag]

\* self.process_response(response)? after the tag is saved
then_process(tagged, pub, io) ==
  IF tagged.res # "Ok" THEN tagged ELSE process_response(tagged.w, pub, io)

\* "Save metadata after successful update"
then_save_metadata(processed, time, io) ==
  IF processed.res # "Ok" THEN processed ELSE save_metadata(processed.w, time, io)

\* the part of update() and download_and_update() after the response is in
install_response(w, pub, response, io, time) ==
  then_save_metadata(then_process(save_etag(w, response.etag, io), pub, io), time, io)

\* Ok(true) of update() for the Ok(()) of its steps
ok_true(r) == [r EXCEPT !.res = IF @ = "Ok" THEN "Updated" ELSE @]

\* update(), from the outcome of request.call() on
on_response(w, pub, response, io, time) ==
  IF response.status = "304" THEN [w |-> w, res |-> "NotModified"]
  ELSE IF response.status = "transport" THEN [w |-> w, res |-> "TransportError"]
  ELSE IF response.status = "500" THEN [w |-> w, res |-> "HttpError"]
  ELSE ok_true(install_response(w, pub, response, io, time))

\* RemoteRuleManager::update: res is "Updated" for Ok(true), "NotModified"
\* for Ok(false), the error otherwise
update(w, pub, net, io, time) ==
  on_response(w, pub, http_call(pub, if_none_match(w.etag), net), io, time)

\* download_and_update(), from the outcome of call() on
on_download(w, pub, response, io, time) ==
  IF response.status # "200" THEN [w |-> w, res |-> "DownloadFailed"]
  ELSE install_response(w, pub, response, io, time)

\* the request goes out: its header and the status of the answer
request(w, sent, response) ==
  [w EXCEPT !.reqs = Append(@, [sent |-> sent, status |-> response.status])]

\* a download that sends the tag the manager holds
download_conditional(w, pub, net, io, time) ==
  on_download(request(w, if_none_match(w.etag), http_call(pub, if_none_match(w.etag), net)),
              pub, http_call(pub, if_none_match(w.etag), net), io, time)

\* ureq::get(&self.url).call(): no If-None-Match header
download_and_update(w, pub, net, io, time) ==
  on_download(request(w, "None", http_call(pub, "None", net)),
              pub, http_call(pub, "None", net), io, time)

\* init: "Try to load ETag from file"
load_etag(w) == IF w.etag_file # "None" THEN [w EXCEPT !.etag = w.etag_file] ELSE w

\* init: the cached file when it is there and loads, else the download
load_or_download(w, loaded, pub, net, io, time) ==
  IF loaded.res = "Ok" THEN loaded ELSE download_and_update(w, pub, net, io, time)

cached_or_download(w, pub, net, io, time) ==
  IF w.rules = NoFile THEN download_and_update(w, pub, net, io, time)
  ELSE load_or_download(w, load_from_file(w, io), pub, net, io, time)

\* RemoteRuleManager::init
init(w, pub, net, io, time) == cached_or_download(load_etag(w), pub, net, io, time)

\* match_domain / match_ip / match_input of the manager: the fallback with no
\* reader, else the reader's call run to its end. The set of [w, res] it may
\* end in (the cache chooses what it evicts).
manager_match(w, op, arg) ==
  LET key == CacheKey_new(key_text(op, arg))
      got == cache_get(w.cache, has_cache, key)
      found == reader_lookup(Images[w.readers[w.inner]], op, arg)
  IN  IF ~w.has_reader THEN {[w |-> w, res |-> Fallback]}
      ELSE IF returns_early(op, arg) THEN {[w |-> w, res |-> Fallback]}
      ELSE IF got[1] THEN {[w |-> w, res |-> unwrap_or(got[2].val, Fallback)]}
      ELSE IF ~has_cache THEN {[w |-> w, res |-> unwrap_or(found, Fallback)]}
      ELSE {[w |-> [w EXCEPT !.cache = c], res |-> unwrap_or(found, Fallback)] :
              c \in cache_insert(w.cache, CacheCapacity, key,
                                 [val |-> found, from |-> w.inner, by |-> op])}

SetWorld(w) ==
  /\ mgr' = [etag |-> w.etag, has_reader |-> w.has_reader]
  /\ readers' = w.readers
  /\ inner' = w.inner
  /\ cache' = w.cache
  /\ generation' = w.generation
  /\ fs' = [rules |-> w.rules, etag |-> w.etag_file, meta |-> w.meta, tmp |-> w.tmp]

threads == <<thr, calls, reloads, completed, overlap>>

\* The cache directory a run starts on: empty, or left by an earlier run.
UsedDir == [rules |-> 1, etag |-> "e1",
            meta |-> [exists |-> TRUE, last_updated |-> 0, etag |-> "e1"],
            tmp |-> NoFile]

RemoteInit ==
  /\ mgr = [etag |-> "None", has_reader |-> FALSE]
  /\ fs \in {EmptyDir, UsedDir}
  /\ readers = <<>>
  /\ inner = 0
  /\ cache = <<>>
  /\ has_cache = TRUE
  /\ generation = 0
  /\ origin \in 1..Len(Publications)
  /\ now = 0
  /\ last = NoCall
  /\ rules = IntermediateRules_new
  /\ slices = <<>>
  /\ asked = NoQuery
  /\ ruleset = RuleSet_new(RuleConfig_new("custom", "Proxy"))
  /\ global = GlobalStart
  /\ thr = [t \in Threads |-> Idle]
  /\ calls = 0
  /\ reloads = 0
  /\ completed = 0
  /\ overlap = {}

ManagerInit(net, io) ==
  /\ ~mgr.has_reader
  /\ \E r \in {init(World, Publications[origin], net, io, now)} :
       /\ SetWorld(r.w)
       /\ last' = [op |-> "init", res |-> r.res,
                   status |-> IF r.w.reqs = <<>> THEN "none" ELSE r.w.reqs[1].status,
                   sent |-> IF r.w.reqs = <<>> THEN "None" ELSE r.w.reqs[1].sent,
                   stored |-> FALSE, prev_stored |-> FALSE, io |-> io]
  /\ UNCHANGED <<has_cache, origin, now, threads, builder, sets>>

ManagerUpdate(net, io) ==
  /\ Len(readers) < MaxInstalls
  /\ \E r \in {update(World, Publications[origin], net, io, now)},
        response \in {http_call(Publications[origin], if_none_match(mgr.etag), net)} :
       /\ SetWorld(r.w)
       /\ last' = [op |-> "update", res |-> r.res, status |-> response.status,
                   sent |-> if_none_match(mgr.etag),
                   stored |-> (response.status = "200" /\ response.etag # "None"),
                   prev_stored |-> (last.op = "update" /\ last.stored), io |-> io]
  /\ UNCHANGED <<has_cache, origin, now, threads, builder, sets>>

ManagerMatch(op, arg) ==
  /\ \E r \in manager_match(World, op, arg) :
       /\ SetWorld(r.w)
       /\ last' = [NoCall EXCEPT !.op = op, !.res = r.res]
  /\ UNCHANGED <<has_cache, origin, now, threads, builder, sets>>

\* The origin publishes a later entry of Publications.
Publish(p) ==
  /\ p > origin
  /\ origin' = p
  /\ last' = [NoCall EXCEPT !.op = "publish"]
  /\ UNCHANGED <<mgr, fs, readers, inner, cache, has_cache, generation, now, threads, builder, sets>>

RemoteNext ==
  \/ \E net \in NetOutcomes, io \in IoPoints : ManagerInit(net, io)
  \/ \E net \in NetOutcomes, io \in IoPoints : ManagerUpdate(net, io)
  \/ ManagerMatch("match_domain", QMixed)
  \/ \E arg \in QueryAddrs : ManagerMatch("match_ip", arg)
  \/ \E p \in 1..Len(Publications) : Publish(p)

RemoteSpec == RemoteInit /\ [][RemoteNext]_vars

(***************************************************************************)
(* The update interval: needs_update and update_if_needed against a clock  *)
(***************************************************************************)
\* with_update_interval(interval), in ticks of the clock
UpdateInterval == 2
MaxTime == 3

\* UpdateMetadata::load(path).unwrap_or_default(): the last_updated it gives,
\* None for a file that is not there or does not read back
metadata_load(meta, io) ==
  IF meta.exists /\ io # "meta_load" THEN [some |-> TRUE, at |-> meta.last_updated]
  ELSE [some |-> FALSE, at |-> 0]

\* an update is needed only once more than the interval has passed
metadata_needs_update_strict(last_updated, time, interval) ==
  IF ~last_updated.some THEN TRUE
  ELSE IF time < last_updated.at THEN TRUE
  ELSE time - last_updated.at > interval

\* UpdateMetadata::needs_update(interval); duration_since fails for a time in
\* the future and the elapsed time is then Duration::MAX
metadata_needs_update(last_updated, time, interval) ==
  IF ~last_updated.some THEN TRUE
  ELSE IF time < last_updated.at THEN TRUE
  ELSE time - last_updated.at >= interval

\* RemoteRuleManager::needs_update
needs_update(w, time, io) ==
  metadata_needs_update(metadata_load(w.meta, io), time, UpdateInterval)

\* RemoteRuleManager::update_if_needed: Ok(false) without a request when no
\* update is needed
update_if_needed(w, pub, net, io, time) ==
  IF needs_update(w, time, io) THEN update(w, pub, net, io, time)
  ELSE [w |-> w, res |-> "NotModified"]

ManagerUpdateIfNeeded(net, io) ==
  /\ Len(readers) < MaxInstalls
  /\ \E r \in {update_if_needed(World, Publications[origin], net, io, now)},
        response \in {http_call(Publications[origin], if_none_match(mgr.etag), net)} :
       /\ SetWorld(r.w)
       /\ last' = [op |-> "update_if_needed", res |-> r.res,
                   status |-> IF needs_update(World, now, io)
                              THEN response.status ELSE "skipped",
                   sent |-> if_none_match(mgr.etag),
                   stored |-> FALSE, prev_stored |-> FALSE, io |-> io]
  /\ UNCHANGED <<has_cache, origin, now, threads, builder, sets>>

\* the wall clock moves on
Tick ==
  /\ now < MaxTime
  /\ now' = now + 1
  /\ last' = [NoCall EXCEPT !.op = "tick"]
  /\ UNCHANGED <<mgr, fs, readers, inner, cache, has_cache, generation, origin,
                 threads, builder, sets>>

IntervalNext ==
  \/ Tick
  \/ \E net \in NetOutcomes, io \in {"none", "meta_save", "meta_load"} :
       ManagerUpdateIfNeeded(net, io)
  \/ \E net \in NetOutcomes, io \in {"none", "meta_save"} : ManagerUpdate(net, io)

IntervalSpec == RemoteInit /\ [][IntervalNext]_vars

(***************************************************************************)
(* A RuleSet filled and asked in every order                               *)
(***************************************************************************)
MaxRules == 2

\* 1.0.0.2
QAddr2 == <<"1", ".", "0", ".", "0", ".", "2">>
\* 1.0.0.0/8
QCidr == <<"1", ".", "0", ".", "0", ".", "0", "/", "8">>
QOther == <<"c", ".", "b">>
SetDomains == {QDomain, <<".", "b">>}
SetIps == {QAddr}
SetCidrs == {QCidr}
\* static rules as a rule file or a caller builds them
StaticRules ==
  { DomainRule_add_pattern(DomainRule_new("Reject"), <<".", "b">>),
    CidrRule_add_pattern(CidrRule_new("Reject"), QCidr),
    IpRule_add_pattern(IpRule_new("Reject"), QAddr) }
SetInputs == {<<>>, QDomain, QMixed, QOther, QAddr, QAddr2}

\* everything but the rule set stays as a fresh process has it
rest == <<rules, slices, global, readers, inner, cache, has_cache, generation,
          threads, remote>>

SetInit ==
  /\ ruleset \in { RuleSet_new(RuleConfig_new("test", "Proxy")),
                   with_cache_size(RuleConfig_new("test", "Proxy")) }
  /\ global = GlobalStart
  /\ rules = IntermediateRules_new
  /\ slices = <<>>
  /\ asked = NoQuery
  /\ readers = <<>>
  /\ inner = 0
  /\ cache = <<>>
  /\ has_cache = FALSE
  /\ generation = 0
  /\ thr = [t \in Threads |-> Idle]
  /\ calls = 0
  /\ reloads = 0
  /\ completed = 0
  /\ overlap = {}
  /\ mgr = [etag |-> "None", has_reader |-> FALSE]
  /\ fs = EmptyDir
  /\ origin = 1
  /\ now = 0
  /\ last = NoCall

\* the rule-adding calls, while the set holds fewer than MaxRules rules
SetAddRule(rule) ==
  /\ rule_count(ruleset) < MaxRules
  /\ ruleset' = add_rule(ruleset, rule)
  /\ asked' = [NoQuery EXCEPT !.op = "add_rule"]
  /\ UNCHANGED rest

SetAddDirectDomain(domain) ==
  /\ rule_count(ruleset) < MaxRules
  /\ ruleset' = add_direct_domain(ruleset, domain)
  /\ asked' = [NoQuery EXCEPT !.op = "add_direct_domain"]
  /\ UNCHANGED rest

SetAddProxyDomain(domain) ==
  /\ rule_count(ruleset) < MaxRules
  /\ ruleset' = add_proxy_domain(ruleset, domain)
  /\ asked' = [NoQuery EXCEPT !.op = "add_proxy_domain"]
  /\ UNCHANGED rest

SetAddRejectDomain(domain) ==
  /\ rule_count(ruleset) < MaxRules
  /\ ruleset' = add_reject_domain(ruleset, domain)
  /\ asked' = [NoQuery EXCEPT !.op = "add_reject_domain"]
  /\ UNCHANGED rest

SetAddDirectIp(ip) ==
  /\ rule_count(ruleset) < MaxRules
  /\ ruleset' = add_direct_ip(ruleset, ip)
  /\ asked' = [NoQuery EXCEPT !.op = "add_direct_ip"]
  /\ UNCHANGED rest

SetAddProxyIp(ip) ==
  /\ rule_count(ruleset) < MaxRules
  /\ ruleset' = add_proxy_ip(ruleset, ip)
  /\ asked' = [NoQuery EXCEPT !.op = "add_proxy_ip"]
  /\ UNCHANGED rest

SetAddDirectCidr(cidr) ==
  /\ rule_count(ruleset) < MaxRules
  /\ ruleset' = add_direct_cidr(ruleset, cidr)
  /\ asked' = [NoQuery EXCEPT !.op = "add_direct_cidr"]
  /\ UNCHANGED rest

SetAddProxyCidr(cidr) ==
  /\ rule_count(ruleset) < MaxRules
  /\ ruleset' = add_proxy_cidr(ruleset, cidr)
  /\ asked' = [NoQuery EXCEPT !.op = "add_proxy_cidr"]
  /\ UNCHANGED rest

SetAddDirectDomains(domains) ==
  /\ rule_count(ruleset) < MaxRules
  /\ ruleset' = add_direct_domains(ruleset, domains)
  /\ asked' = [NoQuery EXCEPT !.op = "add_direct_domains"]
  /\ UNCHANGED rest

SetAddProxyDomains(domains) ==
  /\ rule_count(ruleset) < MaxRules
  /\ ruleset' = add_proxy_domains(ruleset, domains)
  /\ asked' = [NoQuery EXCEPT !.op = "add_proxy_domains"]
  /\ UNCHANGED rest

SetAddDirectIps(ips) ==
  /\ rule_count(ruleset) < MaxRules
  /\ ruleset' = add_direct_ips(ruleset, ips)
  /\ asked' = [NoQuery EXCEPT !.op = "add_direct_ips"]
  /\ UNCHANGED rest

SetAddProxyIps(ips) ==
  /\ rule_count(ruleset) < MaxRules
  /\ ruleset' = add_proxy_ips(ruleset, ips)
  /\ asked' = [NoQuery EXCEPT !.op = "add_proxy_ips"]
  /\ UNCHANGED rest

SetMatchInput(text) ==
  /\ asked' = [op |-> "match_input", arg |-> text, file |-> "none",
               res |-> match_input(ruleset, text)]
  /\ UNCHANGED <<ruleset, rest>>

SetMatchHost(text) ==
  /\ asked' = [op |-> "match_host", arg |-> text, file |-> "none",
               res |-> match_host(ruleset, text)]
  /\ UNCHANGED <<ruleset, rest>>

SetMatchDomain(domain) ==
  /\ \E r \in {match_domain(ruleset, domain)} :
       /\ ruleset' = r.set
       /\ asked' = [op |-> "set_match_domain", arg |-> domain, file |-> "none",
                    res |-> r.res]
  /\ UNCHANGED rest

SetMatchIp(ip) ==
  /\ \E r \in {match_ip(ruleset, ip)} :
       /\ ruleset' = r.set
       /\ asked' = [op |-> "set_match_ip", arg |-> ip, file |-> "none", res |-> r.res]
  /\ UNCHANGED rest

SetNext ==
  \/ \E rule \in StaticRules : SetAddRule(rule)
  \/ \E domain \in SetDomains : SetAddDirectDomain(domain)
  \/ \E domain \in SetDomains : SetAddProxyDomain(domain)
  \/ \E domain \in SetDomains : SetAddRejectDomain(domain)
  \/ \E ip \in SetIps : SetAddDirectIp(ip)
  \/ \E ip \in SetIps : SetAddProxyIp(ip)
  \/ \E cidr \in SetCidrs : SetAddDirectCidr(cidr)
  \/ \E cidr \in SetCidrs : SetAddProxyCidr(cidr)
  \/ SetAddDirectDomains(<<QDomain, QOther>>)
  \/ SetAddProxyDomains(<<QDomain, QOther>>)
  \/ SetAddDirectIps(<<QAddr, QAddr2>>)
  \/ SetAddProxyIps(<<QAddr, QAddr2>>)
  \/ \E text \in SetInputs : SetMatchInput(text)
  \/ SetMatchHost(QAddr)
  \/ SetMatchDomain(QDomain)
  \/ SetMatchIp(parse_ip(QAddr))

SetSpec == SetInit /\ [][SetNext]_vars

(***************************************************************************)
(* The global API called in every order                                    *)
(***************************************************************************)
\* a rule text with one section: [rule=DOMAIN,target=REJECT] holding .b
Readers == { << [rule_type |-> "Domain", target |-> "Reject", patterns |-> << <<".", "b">> >>] >> }
GlobalInputs == {QDomain, QOther, QAddr}
GlobalAdds ==
  {"add_direct_domain", "add_proxy_domain", "add_direct_ip", "add_proxy_ip"}

\* everything but the global rule set stays as a fresh process has it
others == <<rules, slices, ruleset, readers, inner, cache, has_cache, generation,
            threads, remote>>

GlobalInit ==
  /\ global = GlobalStart
  /\ ruleset = RuleSet_new(RuleConfig_new("custom", "Proxy"))
  /\ rules = IntermediateRules_new
  /\ slices = <<>>
  /\ asked = NoQuery
  /\ readers = <<>>
  /\ inner = 0
  /\ cache = <<>>
  /\ has_cache = FALSE
  /\ generation = 0
  /\ thr = [t \in Threads |-> Idle]
  /\ calls = 0
  /\ reloads = 0
  /\ completed = 0
  /\ overlap = {}
  /\ mgr = [etag |-> "None", has_reader |-> FALSE]
  /\ fs = EmptyDir
  /\ origin = 1
  /\ now = 0
  /\ last = NoCall

GlobalReloadWithType(rule_type) ==
  /\ global' = reload_ruleset_with_type(global, rule_type)
  /\ asked' = [NoQuery EXCEPT !.op = "reload_ruleset_with_type", !.res = "Ok"]
  /\ UNCHANGED others

GlobalReloadFromReader(reader, cfg) ==
  /\ global' = reload_ruleset_from_reader(global, reader, cfg)
  /\ asked' = [NoQuery EXCEPT !.op = "reload_ruleset_from_reader", !.res = "Ok"]
  /\ UNCHANGED others

GlobalMatchRule(text) ==
  /\ global' = match_rule(global, text).g
  /\ asked' = [op |-> "match_rule", arg |-> text, file |-> "none",
               res |-> match_rule(global, text).res]
  /\ UNCHANGED others

GlobalAddDirectDomain(domains) ==
  /\ global' = global_add_direct_domain(global, domains)
  /\ asked' = [NoQuery EXCEPT !.op = "add_direct_domain", !.arg = domains]
  /\ UNCHANGED others

GlobalAddProxyDomain(domains) ==
  /\ global' = global_add_proxy_domain(global, domains)
  /\ asked' = [NoQuery EXCEPT !.op = "add_proxy_domain", !.arg = domains]
  /\ UNCHANGED others

GlobalAddDirectIp(ips) ==
  /\ global' = global_add_direct_ip(global, ips)
  /\ asked' = [NoQuery EXCEPT !.op = "add_direct_ip", !.arg = ips]
  /\ UNCHANGED others

GlobalAddProxyIp(ips) ==
  /\ global' = global_add_proxy_ip(global, ips)
  /\ asked' = [NoQuery EXCEPT !.op = "add_proxy_ip", !.arg = ips]
  /\ UNCHANGED others

GlobalNext ==
  \/ \E rule_type \in RuleSetTypes : GlobalReloadWithType(rule_type)
  \/ \E reader \in Readers : GlobalReloadFromReader(reader, RuleConfig_new("custom", "Direct"))
  \/ \E text \in GlobalInputs : GlobalMatchRule(text)
  \/ GlobalAddDirectDomain(<<QDomain>>)
  \/ GlobalAddProxyDomain(<<QOther>>)
  \/ GlobalAddDirectIp(<<QAddr>>)
  \/ GlobalAddProxyIp(<<QAddr>>)

GlobalSpec == GlobalInit /\ [][GlobalNext]_vars

(***************************************************************************)
(* Claims on the cached reader                                             *)
(***************************************************************************)
\* what reader i answers to a call, the fallback standing for no match
Decision(i, op, arg) ==
  unwrap_or(reader_lookup(Images[readers[i]], op, arg), Fallback)

Returning(t) == thr[t].pc = "done" /\ thr[t].op \in MatchOps
ReloadReturnsOk(t) == thr[t].pc = "done" /\ thr[t].op = "reload" /\ thr[t].res = "Ok"

\* the file opens: long enough for the header, our magic, a version we know
Opens(data) ==
  data.len >= 128 /\ data.magic = <<75, 50, 82, 85, 76, 69, 0, 1>> /\ data.version <= 1

\* C1: a call that returns a value taken from the cache returns one computed
\* on the reader that was installed when the call read the cache.
C1_CachedValueIsOfInstalledReader ==
  \A t \in Threads :
    (Returning(t) /\ thr[t].hit) => thr[t].from = thr[t].began

\* C2: the value match_domain returns is the decision of one reader that was
\* installed at some moment of the call (entries cached by match_domain alone).
C2_DecisionOfOneInstalledSnapshot ==
  \A t \in Threads :
    (Returning(t) /\ thr[t].op = "match_domain" /\ thr[t].by = "match_domain") =>
      \E e \in thr[t].began..inner :
        thr[t].res = Decision(e, thr[t].op, thr[t].arg)

\* C3: the first matching call a thread makes after its reload returned Ok
\* returns the decision of the reader that reload installed, or of a later one.
C3_NextQuerySeesReload ==
  \A t \in Threads :
    (Returning(t) /\ thr[t].after > 0 /\ thr[t].by = thr[t].op) =>
      \E e \in thr[t].after..Len(readers) :
        thr[t].res = Decision(e, thr[t].op, thr[t].arg)

\* C4: a reload whose file does not open returns the error and leaves the
\* installed reader, the generation and the cache as they were; a reload
\* that goes on installs a file that opens.
C4_FailedReloadIsTransactional ==
  [][\A t \in Threads :
       (thr[t].pc = "idle" /\ thr'[t].op = "reload") =>
         IF thr'[t].pc = "done"
         THEN /\ thr'[t].res \in {"InvalidHeaderSize", "InvalidMagic", "UnsupportedVersion"}
              /\ inner' = inner /\ readers' = readers
              /\ generation' = generation /\ cache' = cache
         ELSE Opens(Images[readers'[inner']])]_vars

C4_Witness ==
  \E t \in Threads :
    /\ thr[t].pc = "done" /\ thr[t].op = "reload" /\ thr[t].res = "UnsupportedVersion"
    /\ cache # <<>>

C6_EmptyWhenReloadReturns ==
  \A t \in Threads : ReloadReturnsOk(t) => cache_stats_len = 0

\* C6, amended: when reload returns Ok and no matching call was in progress
\* at any time of the reload, the cache is empty.
C6_EmptyWhenReloadRanAlone ==
  \A t \in Threads : (ReloadReturnsOk(t) /\ t \notin overlap) => cache_stats_len = 0

C6_Witness ==
  \E t \in Threads : ReloadReturnsOk(t) /\ t \notin overlap /\ has_cache /\ calls = 2

\* C7: with no reload, every call returns what the same operation of the
\* installed reader returns, the fallback standing for no match.
C7_CacheIsTransparent ==
  \A t \in Threads :
    (Returning(t) /\ reloads = 0) => thr[t].res = Decision(inner, thr[t].op, thr[t].arg)

(***************************************************************************)
(* Claims on the remote rule manager                                       *)
(***************************************************************************)
UpdateStep == last'.op = "update"
UpdateFailed(res) == res \notin {"Updated", "NotModified"}

\* the decisions a call may return on the manager in state w
answers(w, op, arg) == {r.res : r \in manager_match(w, op, arg)}

\* C8: an update() that returns an error leaves the entity tag, in memory
\* and in rules.k2r.etag, and rules.k2r.meta as they were.
C8_FailedUpdateKeepsSidecars ==
  [][(UpdateStep /\ UpdateFailed(last'.res)) =>
       /\ mgr'.etag = mgr.etag
       /\ fs'.etag = fs.etag
       /\ fs'.meta = fs.meta]_vars

C8_Witness ==
  /\ last.op = "update" /\ last.res = "InvalidMagic"
  /\ mgr.etag = "e3" /\ fs.etag = "e3" /\ fs.rules = 1

\* C9: after an update() that returns an error every match_domain, match_ip
\* and match_input returns the decision it returned before the update.
C9_FailedUpdateKeepsDecisions ==
  [][(mgr.has_reader /\ UpdateStep /\ UpdateFailed(last'.res)) =>
       /\ \A op \in {"match_domain", "match_input"}, arg \in QueryTexts \cup {QDomain} :
            answers(World', op, arg) = answers(World, op, arg)
       /\ \A arg \in QueryAddrs :
            answers(World', "match_ip", arg) = answers(World, "match_ip", arg)]_vars

C9_Witness ==
  /\ last.op = "update" /\ last.res = "Io"
  /\ Len(readers) = 2 /\ readers[1] # readers[2]

MaxDomains == 2

\* (pattern, target) pairs handed to add_domain: exact and suffix rules in
\* mixed case, one domain under two targets, and a blank pattern
DomainRules ==
  { << <<"A", ".", "b">>, "Direct" >>,
    << <<"a", ".", "b">>, "Reject" >>,
    << <<".", "a", ".", "B">>, "Reject" >>,
    << <<".", "b">>, "Direct" >>,
    << <<"x", ".", "a", ".", "b">>, "Direct" >>,
    << <<" ">>, "Reject" >> }

DomainQueries ==
  { <<>>, <<"b">>, <<"a", ".", "b">>, <<"A", ".", "B">>,
    <<"x", ".", "a", ".", "b">>, <<"x", "a", ".", "b">>,
    <<"y", ".", "x", ".", "a", ".", "b">> }

InputQueries == { <<>>, <<"A", ".", "B">>, QAddr }

domain_rules(r) == Len(r.exact_domains) + Len(r.suffix_domains)
\* the rules that are not domain rules: CIDR, exact-IP and GeoIP rules
cidr_rules(r) ==
  Len(r.v4_cidrs) + Len(r.v6_cidrs) + Len(r.exact_v4_ips) + Len(r.exact_v6_ips)
  + Len(r.geoip_countries)

\* The bytes a reader is opened on: those BinaryRuleWriter::write gave, or
\* those bytes with every byte of the payload section overwritten.
Files == {"written", "payload_overwritten"}
file_bytes(r, file) ==
  IF file = "written" THEN write(r)
  ELSE [write(r) EXCEPT !.payload = [i \in DOMAIN @ |-> "z"]]

RuleInit ==
  /\ rules = IntermediateRules_new
  /\ slices = <<>>
  /\ asked = NoQuery
  /\ ruleset = RuleSet_new(RuleConfig_new("custom", "Proxy"))
  /\ global = GlobalStart
  /\ readers = <<>>
  /\ inner = 0
  /\ cache = <<>>
  /\ has_cache = FALSE
  /\ generation = 0
  /\ thr = [t \in Threads |-> Idle]
  /\ calls = 0
  /\ reloads = 0
  /\ completed = 0
  /\ overlap = {}
  /\ mgr = [etag |-> "None", has_reader |-> FALSE]
  /\ fs = EmptyDir
  /\ origin = 1
  /\ now = 0
  /\ last = NoCall

cached == <<readers, inner, cache, has_cache, generation>>

\* IntermediateRules::add_domain
AddDomain(pattern, target) ==
  /\ slices = <<>> /\ cidr_rules(rules) = 0
  /\ domain_rules(rules) < MaxDomains
  /\ rules' = add_domain(rules, pattern, target)
  /\ asked' = NoQuery
  /\ UNCHANGED <<slices, cached, threads, remote, sets>>

\* BinaryRuleReader::from_bytes(bytes)?.match_domain(query)
MatchDomain(query, file) ==
  /\ slices = <<>> /\ cidr_rules(rules) = 0
  /\ \E bytes \in {file_bytes(rules, file)} :
       /\ reader_open(bytes) = "Ok"
       /\ asked' = [op |-> "match_domain", arg |-> query, file |-> file,
                    res |-> reader_match_domain(bytes, query)]
  /\ UNCHANGED <<rules, slices, cached, threads, remote, sets>>

\* BinaryRuleReader::from_bytes(bytes)?.match_input(query)
MatchInput(query) ==
  /\ slices = <<>> /\ cidr_rules(rules) = 0
  /\ \E bytes \in {write(rules)} :
       /\ reader_open(bytes) = "Ok"
       /\ asked' = [op |-> "match_input", arg |-> query, file |-> "written",
                    res |-> reader_match_input(bytes, query)]
  /\ UNCHANGED <<rules, slices, cached, threads, remote, sets>>

\* CIDR rules added to one IntermediateRules
MaxCidrs == 2

\* an IPv6 address by its first and last byte, the bytes between being 0
V6Addr(head, low) ==
  [i \in 1..16 |-> IF i = 1 THEN head ELSE IF i = 16 THEN low ELSE 0]

\* (network, prefix_len, target): 0.0.0.0/0, 1.0.0.0/8, 1.0.0.1/8 (host bits
\* set), 1.0.0.0/24, 1.0.0.1/32
V4Rules ==
  { <<0, 0, "Direct">>, <<Net1, 8, "Reject">>, <<Net1 + 1, 8, "Direct">>,
    <<Net1, 24, "Proxy">>, <<Net1 + 1, 32, "Direct">> }

\* ::/0, fc00::/7, fc00::1/128
V6Rules ==
  { <<V6Addr(0, 0), 0, "Proxy">>, <<V6Addr(252, 0), 7, "Direct">>,
    <<V6Addr(252, 1), 128, "Reject">> }

\* 1.0.0.1, 1.0.0.2, 1.0.1.0, 2.0.0.0, fc00::1, fd00::1, fe00::
IpQueries ==
  { [v |-> 4, a |-> Net1 + 1], [v |-> 4, a |-> Net1 + 2],
    [v |-> 4, a |-> Net1 + 256], [v |-> 4, a |-> 2 * Net1],
    [v |-> 6, b |-> V6Addr(252, 1)], [v |-> 6, b |-> V6Addr(253, 1)],
    [v |-> 6, b |-> V6Addr(254, 0)] }

\* IntermediateRules::add_v4_cidr
AddV4Cidr(network, prefix_len, target) ==
  /\ slices = <<>> /\ domain_rules(rules) = 0
  /\ cidr_rules(rules) < MaxCidrs
  /\ rules' = add_v4_cidr(rules, network, prefix_len, target)
  /\ asked' = NoQuery
  /\ UNCHANGED <<slices, cached, threads, remote, sets>>

\* IntermediateRules::add_v6_cidr
AddV6Cidr(network, prefix_len, target) ==
  /\ slices = <<>> /\ domain_rules(rules) = 0
  /\ cidr_rules(rules) < MaxCidrs
  /\ rules' = add_v6_cidr(rules, network, prefix_len, target)
  /\ asked' = NoQuery
  /\ UNCHANGED <<slices, cached, threads, remote, sets>>

\* (ip, target) of exact-IP rules: 1.0.0.1 and 1.0.0.2
ExactV4Rules == { <<Net1 + 1, "Reject">>, <<Net1 + 2, "Proxy">> }

\* rules.exact_v4_ips.push((u32::from(ip), target))
AddExactV4Ip(ip, target) ==
  /\ slices = <<>> /\ domain_rules(rules) = 0
  /\ cidr_rules(rules) < MaxCidrs
  /\ rules' = [rules EXCEPT !.exact_v4_ips = Append(@, <<ip, target>>)]
  /\ asked' = NoQuery
  /\ UNCHANGED <<slices, cached, threads, remote, sets>>

\* country codes handed to add_geoip
Countries == { <<"c", "n">>, <<"u", "s", "a">> }

\* IntermediateRules::add_geoip
AddGeoip(country, target) ==
  /\ slices = <<>> /\ domain_rules(rules) = 0
  /\ cidr_rules(rules) < MaxCidrs
  /\ rules' = add_geoip(rules, country, target)
  /\ asked' = NoQuery
  /\ UNCHANGED <<slices, cached, threads, remote, sets>>

\* BinaryRuleReader::from_bytes(bytes)?.match_ip(ip)
MatchIp(ip) ==
  /\ slices = <<>> /\ domain_rules(rules) = 0
  /\ \E bytes \in {write(rules)} :
       /\ reader_open(bytes) = "Ok"
       /\ asked' = [op |-> "match_ip", arg |-> ip, file |-> "written",
                    res |-> reader_match_ip(bytes, ip)]
  /\ UNCHANGED <<rules, slices, cached, threads, remote, sets>>

(***************************************************************************)
(* The V2 slice file: SliceWriter and SliceReader. A slice is its index    *)
(* entry together with the data bytes the entry's offset and size address; *)
(* the FST of a domain slice is the set of keys it was built from.         *)
(***************************************************************************)
FstDomain == 1
CidrV4 == 2
CidrV6 == 3
GeoIp == 4

\* chars().rev().collect()
rev(s) == [i \in 1..Len(s) |-> s[Len(s) + 1 - i]]

\* the key add_domain_slice stores for one domain
reversed_key(d) ==
  LET normalized == to_lowercase(d) IN
  rev(IF normalized # <<>> /\ Head(normalized) = "." THEN normalized
      ELSE <<".">> \o normalized)

add_domain_slice(w, domains, target) ==
  IF domains = <<>> THEN w
  ELSE Append(w, [slice_type |-> FstDomain, target |-> as_u8(target),
                  count |-> Cardinality({reversed_key(domains[i]) : i \in DOMAIN domains}),
                  data |-> {reversed_key(domains[i]) : i \in DOMAIN domains}])

add_cidr_v4_slice(w, cidrs, target) ==
  IF cidrs = <<>> THEN w
  ELSE Append(w, [slice_type |-> CidrV4, target |-> as_u8(target),
                  count |-> Len(cidrs), data |-> sort_by_network(<<>>, cidrs)])

add_cidr_v6_slice(w, cidrs, target) ==
  IF cidrs = <<>> THEN w
  ELSE Append(w, [slice_type |-> CidrV6, target |-> as_u8(target),
                  count |-> Len(cidrs), data |-> sort_by_bytes(<<>>, cidrs)])

\* bytes.first() and bytes.get(1) of the upper-cased code, 0 where missing
country_code(country) ==
  [i \in 1..2 |-> IF i <= Len(country) THEN to_uppercase(country)[i] ELSE 0]

add_geoip_slice(w, countries, target) ==
  IF countries = <<>> THEN w
  ELSE Append(w, [slice_type |-> GeoIp, target |-> as_u8(target),
                  count |-> Len(countries),
                  data |-> [i \in DOMAIN countries |-> country_code(countries[i])]])

\* b"K2RULEV2"
slice_MAGIC == <<75, 50, 82, 85, 76, 69, 86, 50>>
slice_FORMAT_VERSION == 1
slice_HEADER_SIZE == 64
\* size_of::<SliceEntry>()
slice_ENTRY_SIZE == 16

\* slice.data.len(): 8, 24 and 4 bytes per entry; the bytes of an FST are
\* those of its keys here
data_len(slice) ==
  CASE slice.slice_type = CidrV4 -> 8 * slice.count
    [] slice.slice_type = CidrV6 -> 24 * slice.count
    [] slice.slice_type = GeoIp -> 4 * slice.count
    [] OTHER -> Cardinality(slice.data) + Cardinality(UNION {DOMAIN key : key \in slice.data})

\* current_offset of build when it reaches slice i
RECURSIVE offset_of(_, _)
offset_of(w, i) ==
  IF i = 1 THEN slice_HEADER_SIZE + (Len(w) * slice_ENTRY_SIZE)
  ELSE offset_of(w, i - 1) + data_len(w[i - 1])

\* SliceWriter::build: header, index entries in the order they were pushed,
\* then the data of each slice at its entry's offset
build(w) ==
  [ magic |-> slice_MAGIC, version |-> slice_FORMAT_VERSION,
    slice_count |-> Len(w),
    entries |-> [i \in DOMAIN w |->
                   [slice_type |-> w[i].slice_type, target |-> w[i].target,
                    count |-> w[i].count, data |-> w[i].data,
                    offset |-> offset_of(w, i), size |-> data_len(w[i])]],
    len |-> offset_of(w, Len(w) + 1) ]

\* SliceReader::from_bytes: "Ok" or the error
slice_from_bytes(data) ==
  IF data.len < slice_HEADER_SIZE THEN "InvalidHeaderSize"
  ELSE IF data.magic # slice_MAGIC THEN "InvalidMagic"
  ELSE IF data.version > slice_FORMAT_VERSION THEN "UnsupportedVersion"
  ELSE IF data.len < slice_HEADER_SIZE + (data.slice_count * slice_ENTRY_SIZE)
  THEN "Config"
  ELSE "Ok"

get_target(entry) == unwrap_or(from_u8(entry.target), "Direct")

\* the rest of the domain after each of its dots: parts[i..].join(".")
parent_domains(domain) ==
  {SubSeq(domain, k + 1, Len(domain)) : k \in {k \in DOMAIN domain : domain[k] = "."}}

match_domain_in_slice(entry, domain) ==
  \/ rev(<<".">> \o domain) \in entry.data
  \/ \E suffix \in parent_domains(domain) : rev(<<".">> \o suffix) \in entry.data

match_cidr_v4_in_slice(entry, ip) ==
  \E i \in 1..entry.count :
    LET network == entry.data[i][1]
        prefix_len == entry.data[i][2]
    IN  IF prefix_len = 0 THEN TRUE
        ELSE IF prefix_len >= 32 THEN ip = network
        ELSE v4_masked_equal(ip, network, prefix_len)

\* SliceReader::matches_ipv6_cidr
slice_matches_ipv6_cidr(ip, network, prefix_len) ==
  LET full_bytes == prefix_len \div 8
      remaining_bits == prefix_len % 8
  IN  /\ ~(full_bytes > 0 /\ SubSeq(ip, 1, full_bytes) # SubSeq(network, 1, full_bytes))
      /\ (remaining_bits > 0 /\ full_bytes < 16) =>
            (ip[full_bytes + 1] \div Pow2(8 - remaining_bits))
            = (network[full_bytes + 1] \div Pow2(8 - remaining_bits))

match_cidr_v6_in_slice(entry, ip) ==
  \E i \in 1..entry.count :
    slice_matches_ipv6_cidr(ip, entry.data[i][1], entry.data[i][2])

match_geoip_in_slice(entry, country) ==
  \E i \in 1..entry.count :
    Len(country) >= 2 /\ entry.data[i][1] = country[1] /\ entry.data[i][2] = country[2]

\* A loop that keeps the last matching entry instead of returning at the first.
last_hit(entries, hits) ==
  IF hits = {} THEN NoTarget
  ELSE get_target(entries[CHOOSE i \in hits : \A j \in hits : i >= j])

\* `for entry in &self.entries { if .. { return Some(entry.get_target()) } } None`
\* over the entries in `hits`
first_hit(entries, hits) ==
  IF hits = {} THEN NoTarget
  ELSE get_target(entries[CHOOSE i \in hits : \A j \in hits : i <= j])

slice_match_domain(m, domain) ==
  first_hit(m.entries,
            {i \in DOMAIN m.entries :
               /\ m.entries[i].slice_type = FstDomain
               /\ match_domain_in_slice(m.entries[i], to_lowercase(domain))})

slice_match_ip(m, ip) ==
  first_hit(m.entries,
            {i \in DOMAIN m.entries :
               \/ /\ m.entries[i].slice_type = CidrV4 /\ ip.v = 4
                  /\ match_cidr_v4_in_slice(m.entries[i], ip.a)
               \/ /\ m.entries[i].slice_type = CidrV6 /\ ip.v = 6
                  /\ match_cidr_v6_in_slice(m.entries[i], ip.b)})

slice_match_geoip(m, country) ==
  first_hit(m.entries,
            {i \in DOMAIN m.entries :
               /\ m.entries[i].slice_type = GeoIp
               /\ match_geoip_in_slice(m.entries[i], to_uppercase(country))})

\* slices pushed to one SliceWriter
MaxSlices == 2

\* (kind, list, target) handed to the add_*_slice methods
SliceInputs ==
  { <<FstDomain, << <<"A", ".", "b">> >>, "Direct">>,
    <<FstDomain, << <<".", "B">>, <<"b">> >>, "Reject">>,
    <<FstDomain, <<>>, "Proxy">>,
    <<CidrV4, << <<Net1, 8>> >>, "Direct">>,
    <<CidrV4, << <<Net1 + 1, 32>>, <<Net1, 24>> >>, "Reject">>,
    <<CidrV6, << <<V6Addr(252, 0), 7>> >>, "Direct">>,
    <<CidrV6, << <<V6Addr(252, 1), 128>> >>, "Reject">>,
    <<GeoIp, << <<"c", "n">> >>, "Direct">>,
    <<GeoIp, << <<"U", "S">>, <<"C", "N">> >>, "Reject">> }

GeoQueries == { <<"C", "N">>, <<"c", "n">>, <<"u", "s">>, <<"c">>, <<"c", "n", "x">> }

AddSlice(kind, list, target) ==
  /\ rules = IntermediateRules_new
  /\ Len(slices) < MaxSlices
  /\ slices' = CASE kind = FstDomain -> add_domain_slice(slices, list, target)
                 [] kind = CidrV4 -> add_cidr_v4_slice(slices, list, target)
                 [] kind = CidrV6 -> add_cidr_v6_slice(slices, list, target)
                 [] kind = GeoIp -> add_geoip_slice(slices, list, target)
  /\ asked' = NoQuery
  /\ UNCHANGED <<rules, cached, threads, remote, sets>>

\* SliceReader::from_bytes(&writer.build()?)?.match_domain(query)
SliceMatchDomain(query) ==
  /\ rules = IntermediateRules_new /\ slices # <<>>
  /\ asked' = [op |-> "slice_match_domain", arg |-> query, file |-> "built",
               res |-> slice_match_domain(build(slices), query)]
  /\ UNCHANGED <<rules, slices, cached, threads, remote, sets>>

SliceMatchIp(ip) ==
  /\ rules = IntermediateRules_new /\ slices # <<>>
  /\ asked' = [op |-> "slice_match_ip", arg |-> ip, file |-> "built",
               res |-> slice_match_ip(build(slices), ip)]
  /\ UNCHANGED <<rules, slices, cached, threads, remote, sets>>

SliceMatchGeoip(country) ==
  /\ rules = IntermediateRules_new /\ slices # <<>>
  /\ asked' = [op |-> "slice_match_geoip", arg |-> country, file |-> "built",
               res |-> slice_match_geoip(build(slices), country)]
  /\ UNCHANGED <<rules, slices, cached, threads, remote, sets>>

\* Files handed to a reader: the bytes the writer gave, the first bytes of
\* them ending inside the header, the bytes with another magic or a later
\* version in the header, and the bytes without the last one.
Damages == {"written", "short", "magic", "version", "truncated"}
damaged(bytes, kind, header_size) ==
  CASE kind = "short" -> [bytes EXCEPT !.len = header_size - 1]
    [] kind = "magic" -> [bytes EXCEPT !.magic = <<0, 0, 0, 0, 0, 0, 0, 0>>]
    [] kind = "version" -> [bytes EXCEPT !.version = @ + 1]
    [] kind = "truncated" -> [bytes EXCEPT !.len = @ - 1]
    [] OTHER -> bytes

\* BinaryRuleReader::from_bytes(data) / open(path)
Open(kind) ==
  /\ slices = <<>>
  /\ asked' = [op |-> "open", arg |-> <<>>, file |-> kind,
               res |-> reader_open(damaged(write(rules), kind, HEADER_SIZE))]
  /\ UNCHANGED <<rules, slices, cached, threads, remote, sets>>

\* SliceReader::from_bytes(data)
SliceOpen(kind) ==
  /\ rules = IntermediateRules_new /\ slices # <<>>
  /\ asked' = [op |-> "slice_open", arg |-> <<>>, file |-> kind,
               res |-> slice_from_bytes(damaged(build(slices), kind, slice_HEADER_SIZE))]
  /\ UNCHANGED <<rules, slices, cached, threads, remote, sets>>

RuleNext ==
  \/ \E rule \in DomainRules : AddDomain(rule[1], rule[2])
  \/ \E query \in DomainQueries, file \in Files : MatchDomain(query, file)
  \/ \E query \in InputQueries : MatchInput(query)
  \/ \E rule \in V4Rules : AddV4Cidr(rule[1], rule[2], rule[3])
  \/ \E rule \in V6Rules : AddV6Cidr(rule[1], rule[2], rule[3])
  \/ \E ip \in IpQueries : MatchIp(ip)
  \/ \E rule \in ExactV4Rules : AddExactV4Ip(rule[1], rule[2])
  \/ \E country \in Countries : AddGeoip(country, "Direct")
  \/ \E input \in SliceInputs : AddSlice(input[1], input[2], input[3])
  \/ \E query \in DomainQueries : SliceMatchDomain(query)
  \/ \E ip \in IpQueries : SliceMatchIp(ip)
  \/ \E country \in GeoQueries : SliceMatchGeoip(country)
  \/ \E kind \in Damages : Open(kind)
  \/ \E kind \in Damages : SliceOpen(kind)

RuleSpec == RuleInit /\ [][RuleNext]_vars

(***************************************************************************)
(* Claims about V1 domain matching.                                        *)
(***************************************************************************)
\* q is s, or q ends with "." followed by s
covers(s, q) ==
  \/ q = s
  \/ /\ Len(q) > Len(s)
     /\ q[Len(q) - Len(s)] = "."
     /\ SubSeq(q, Len(q) - Len(s) + 1, Len(q)) = s

has_exact(r, q) == \E i \in DOMAIN r.exact_domains : r.exact_domains[i][1] = q
longest_suffix(r, i, q) ==
  /\ covers(r.suffix_domains[i][1], q)
  /\ \A j \in DOMAIN r.suffix_domains :
       covers(r.suffix_domains[j][1], q)
         => Len(r.suffix_domains[j][1]) <= Len(r.suffix_domains[i][1])

AskedWritten(op) == asked.op = op /\ asked.file = "written"

\* C12: a suffix rule ".S" -> T answers T to the query S itself and to every
\* x.S, when no exact rule and no longer suffix rule covers the query.
C12_SuffixMatchIsComplete ==
  AskedWritten("match_domain") =>
    \A i \in DOMAIN rules.suffix_domains :
      (longest_suffix(rules, i, asked.arg) /\ ~has_exact(rules, asked.arg))
        => asked.res = rules.suffix_domains[i][2]

\* C13: a query with no exact rule gets a target only from a suffix rule
\* that covers it (the query is the suffix, or ends with "." and the suffix)
\* and whose stored string is the candidate looked up; "xa.b" is not
\* answered by ".a.b", and a hash hit on other stored bytes answers nothing.
C13_SuffixMatchIsSound ==
  (asked.op = "match_domain" /\ asked.res # NoTarget
     /\ ~has_exact(rules, to_lowercase(asked.arg)))
    => /\ asked.file = "written"
       /\ \E i \in DOMAIN rules.suffix_domains :
            /\ covers(rules.suffix_domains[i][1], to_lowercase(asked.arg))
            /\ asked.res = rules.suffix_domains[i][2]

\* ".a.b" is registered and "xa.b" is asked: no match
C13_Witness ==
  /\ AskedWritten("match_domain")
  /\ asked.arg = <<"x", "a", ".", "b">>
  /\ rules.suffix_domains = << << <<"a", ".", "b">>, "Reject" >> >>
  /\ rules.exact_domains = <<>>
  /\ asked.res = NoTarget

first_exact(r, i) ==
  \A j \in 1..(i - 1) : r.exact_domains[j][1] # r.exact_domains[i][1]

\* C14 as stated: whatever exact rule (domain, target) was added, the reader
\* opened on the written bytes answers target to match_domain(domain).
C14_EveryExactRuleRoundTrips ==
  AskedWritten("match_domain") =>
    \A i \in DOMAIN rules.exact_domains :
      rules.exact_domains[i][1] = asked.arg
        => asked.res = rules.exact_domains[i][2]

\* C14: match_domain(domain) answers the target of the first exact rule that
\* was added for that domain.
C14_FirstExactRuleRoundTrips ==
  AskedWritten("match_domain") =>
    \A i \in DOMAIN rules.exact_domains :
      (rules.exact_domains[i][1] = asked.arg /\ first_exact(rules, i))
        => asked.res = rules.exact_domains[i][2]

\* one domain added under two targets and asked
C14_Witness ==
  /\ AskedWritten("match_domain")
  /\ asked.arg = <<"a", ".", "b">>
  /\ rules.exact_domains = << << <<"a", ".", "b">>, "Direct" >>,
                              << <<"a", ".", "b">>, "Reject" >> >>
  /\ asked.res = "Direct"

only_suffix(r, i, q) ==
  /\ covers(r.suffix_domains[i][1], q)
  /\ \A j \in DOMAIN r.suffix_domains :
       covers(r.suffix_domains[j][1], q)
         => r.suffix_domains[j] = r.suffix_domains[i]

\* C15: a query that has an exact rule and is covered by a suffix rule is
\* answered by the exact rule; a query that only the suffix rule covers, the
\* suffix itself included, is answered by the suffix rule.
C15_ExactBeatsSuffix ==
  AskedWritten("match_domain") =>
    \A i \in DOMAIN rules.suffix_domains :
      /\ (covers(rules.suffix_domains[i][1], asked.arg) /\ has_exact(rules, asked.arg))
           => \E k \in DOMAIN rules.exact_domains :
                /\ rules.exact_domains[k][1] = asked.arg
                /\ asked.res = rules.exact_domains[k][2]
      /\ (only_suffix(rules, i, asked.arg) /\ ~has_exact(rules, asked.arg))
           => asked.res = rules.suffix_domains[i][2]

\* C19: whatever rules were added and written, match_domain("") and
\* match_input("") of the reader opened on the bytes answer None.
C19_EmptyQueryNeverMatches ==
  (asked.op \in {"match_domain", "match_input"} /\ asked.file = "written"
     /\ asked.arg = <<>>)
    => asked.res = NoTarget

(***************************************************************************)
(* Claims about V1 CIDR matching.                                          *)
(***************************************************************************)
\* the top prefix_len of the 32 bits of ip and network are the same
in_v4_cidr(ip, network, prefix_len) ==
  IF prefix_len = 0 THEN TRUE
  ELSE IF prefix_len = 32 THEN ip = network
  ELSE (ip \div (2 ^ (32 - prefix_len))) = (network \div (2 ^ (32 - prefix_len)))

matching_v4(r, ip) ==
  {i \in DOMAIN r.v4_cidrs : in_v4_cidr(ip, r.v4_cidrs[i][1], r.v4_cidrs[i][2])}

\* C17: match_ip on an IPv4 address answers the target of a matching rule
\* whose prefix no other matching rule exceeds, None when no rule matches;
\* /0 matches every address and /32 only its own network address.
C17_LongestPrefixWins ==
  (asked.op = "match_ip" /\ asked.arg.v = 4) =>
    IF matching_v4(rules, asked.arg.a) = {} THEN asked.res = NoTarget
    ELSE \E i \in matching_v4(rules, asked.arg.a) :
           /\ asked.res = rules.v4_cidrs[i][3]
           /\ \A j \in matching_v4(rules, asked.arg.a) :
                rules.v4_cidrs[j][2] <= rules.v4_cidrs[i][2]

\* 1.0.0.2 lies in 1.0.0.0/24 and in 1.0.0.1/8, which is written after it
C17_Witness ==
  /\ asked.op = "match_ip" /\ asked.arg = [v |-> 4, a |-> Net1 + 2]
  /\ rules.v4_cidrs = << <<Net1 + 1, 8, "Direct">>, <<Net1, 24, "Proxy">> >>
  /\ asked.res = "Proxy"

(***************************************************************************)
(* Claims about letter case.                                               *)
(***************************************************************************)
\* a mixed-case form: upper case at the odd positions, lower case at the even
mixed_case(s) ==
  [i \in 1..Len(s) |-> IF i % 2 = 1 THEN UpperChar(s[i]) ELSE LowerChar(s[i])]

CaseForms(s) == {to_lowercase(s), to_uppercase(s), mixed_case(s)}

\* C16: the answer to a domain query is the answer to its lower-case,
\* upper-case and mixed-case forms, and every rule is kept in lower case
\* whatever case it was authored in, in the V1 reader and in the V2 reader.
C16_DomainCaseInsensitive ==
  /\ asked.op = "match_domain" =>
       \A q \in CaseForms(asked.arg) :
         reader_match_domain(file_bytes(rules, asked.file), q) = asked.res
  /\ asked.op = "slice_match_domain" =>
       \A q \in CaseForms(asked.arg) :
         slice_match_domain(build(slices), q) = asked.res
  /\ \A i \in DOMAIN rules.exact_domains :
       rules.exact_domains[i][1] = to_lowercase(rules.exact_domains[i][1])
  /\ \A i \in DOMAIN rules.suffix_domains :
       rules.suffix_domains[i][1] = to_lowercase(rules.suffix_domains[i][1])
  /\ \A i \in DOMAIN slices :
       slices[i].slice_type = FstDomain =>
         \A key \in slices[i].data : key = to_lowercase(key)

\* the rule was authored as "A.b", the query is "A.B"
C16_Witness ==
  /\ AskedWritten("match_domain")
  /\ asked.arg = <<"A", ".", "B">>
  /\ rules.exact_domains = << << <<"a", ".", "b">>, "Direct" >> >>
  /\ asked.res = "Direct"

(***************************************************************************)
(* The IPv6 prefix test of both readers, applied to one address, one       *)
(* network and one prefix length chosen at the start.                      *)
(***************************************************************************)
\* a5a5:a5a5:a5a5:a5a5:a5a5:a5a5:a5a5:a5a5
V6Network == [i \in 1..16 |-> 165]

\* bit i of the 128, counted from the top (1 is the highest bit of byte 1)
bit_of(addr, i) == (addr[((i - 1) \div 8) + 1] \div (2 ^ (7 - ((i - 1) % 8)))) % 2

\* the address with bit i inverted; flip_bit(addr, 0) is the address itself
flip_bit(addr, i) ==
  IF i = 0 THEN addr
  ELSE [addr EXCEPT ![((i - 1) \div 8) + 1] =
          IF bit_of(addr, i) = 1 THEN @ - (2 ^ (7 - ((i - 1) % 8)))
          ELSE @ + (2 ^ (7 - ((i - 1) % 8)))]

PrefixInit ==
  /\ \E i \in 0..128, prefix_len \in 0..128 :
       asked = [op |-> "none", file |-> "none", res |-> NoTarget,
                arg |-> [ip |-> flip_bit(V6Network, i), network |-> V6Network,
                         prefix_len |-> prefix_len]]
  /\ rules = IntermediateRules_new
  /\ slices = <<>>
  /\ ruleset = RuleSet_new(RuleConfig_new("custom", "Proxy"))
  /\ global = GlobalStart
  /\ readers = <<>>
  /\ inner = 0
  /\ cache = <<>>
  /\ has_cache = FALSE
  /\ generation = 0
  /\ thr = [t \in Threads |-> Idle]
  /\ calls = 0
  /\ reloads = 0
  /\ completed = 0
  /\ overlap = {}
  /\ mgr = [etag |-> "None", has_reader |-> FALSE]
  /\ fs = EmptyDir
  /\ origin = 1
  /\ now = 0
  /\ last = NoCall

\* binary::reader::matches_ipv6_cidr(&ip, &network, prefix_len)
V1MatchesIpv6Cidr ==
  /\ asked.op = "none"
  /\ asked' = [asked EXCEPT !.op = "matches_ipv6_cidr", !.file = "v1",
                 !.res = matches_ipv6_cidr(asked.arg.ip, asked.arg.network,
                                           asked.arg.prefix_len)]
  /\ UNCHANGED <<rules, slices, cached, threads, remote, sets>>

\* SliceReader::matches_ipv6_cidr(&ip, &network, prefix_len)
V2MatchesIpv6Cidr ==
  /\ asked.op = "none"
  /\ asked' = [asked EXCEPT !.op = "matches_ipv6_cidr", !.file = "v2",
                 !.res = slice_matches_ipv6_cidr(asked.arg.ip, asked.arg.network,
                                                 asked.arg.prefix_len)]
  /\ UNCHANGED <<rules, slices, cached, threads, remote, sets>>

PrefixNext == V1MatchesIpv6Cidr \/ V2MatchesIpv6Cidr

PrefixSpec == PrefixInit /\ [][PrefixNext]_vars

\* the top prefix_len bits of ip and network are the same
top_bits_equal(ip, network, prefix_len) ==
  \A i \in 1..prefix_len : bit_of(ip, i) = bit_of(network, i)

\* C18: for every prefix length 0..128 both readers say that an address is
\* in an IPv6 CIDR exactly when its top prefix_len bits are those of the
\* network; the bits below do not count.
C18_Ipv6PrefixIsExact ==
  asked.op = "matches_ipv6_cidr" =>
    asked.res = top_bits_equal(asked.arg.ip, asked.arg.network, asked.arg.prefix_len)

\* the address differs from the network in bit 10 only: in under /9, out under /10
C18_Witness ==
  /\ asked.op = "matches_ipv6_cidr" /\ asked.file = "v1"
  /\ asked.arg.ip = flip_bit(V6Network, 10)
  /\ asked.arg.prefix_len = 10
  /\ asked.res = FALSE

(***************************************************************************)
(* Claims about the V2 slice order.                                        *)
(***************************************************************************)
\* the slice is of the kind the query asks for and holds a rule for it
slice_holds(slice, query) ==
  CASE query.op = "slice_match_domain" ->
         /\ slice.slice_type = FstDomain
         /\ \E key \in slice.data : covers(Tail(rev(key)), to_lowercase(query.arg))
    [] query.op = "slice_match_ip" /\ query.arg.v = 4 ->
         /\ slice.slice_type = CidrV4
         /\ \E i \in DOMAIN slice.data :
              in_v4_cidr(query.arg.a, slice.data[i][1], slice.data[i][2])
    [] query.op = "slice_match_ip" /\ query.arg.v = 6 ->
         /\ slice.slice_type = CidrV6
         /\ \E i \in DOMAIN slice.data :
              top_bits_equal(query.arg.b, slice.data[i][1], slice.data[i][2])
    [] query.op = "slice_match_geoip" ->
         /\ slice.slice_type = GeoIp
         /\ Len(query.arg) >= 2
         /\ \E i \in DOMAIN slice.data :
              slice.data[i] = SubSeq(to_uppercase(query.arg), 1, 2)
    [] OTHER -> FALSE

SliceOps == {"slice_match_domain", "slice_match_ip", "slice_match_geoip"}

\* C20: a V2 query is answered by the first slice, in the order the slices
\* were added, that is of its kind and holds it, whatever later slices hold;
\* the answer is None exactly when no slice does.
C20_FirstSliceWins ==
  asked.op \in SliceOps =>
    /\ asked.res = NoTarget <=> \A i \in DOMAIN slices : ~slice_holds(slices[i], asked)
    /\ \A i \in DOMAIN slices :
         (slice_holds(slices[i], asked)
            /\ \A j \in 1..(i - 1) : ~slice_holds(slices[j], asked))
           => asked.res = from_u8(slices[i].target)

\* 1.0.0.1 is in 1.0.0.0/8 of the first slice and in 1.0.0.1/32 of the second
C20_Witness ==
  /\ asked.op = "slice_match_ip" /\ asked.arg = [v |-> 4, a |-> Net1 + 1]
  /\ Len(slices) = 2
  /\ slices[1].slice_type = CidrV4 /\ slices[1].target = as_u8("Direct")
  /\ slices[2].slice_type = CidrV4 /\ slices[2].target = as_u8("Reject")
  /\ asked.res = "Direct"

(***************************************************************************)
(* Claims about opening a container.                                       *)
(***************************************************************************)
\* every (offset, size) pair of the file lies inside its len bytes: the last
\* section of a V1 file ends where the written file ends, and each V2 slice
\* ends at offset + size
sections_inside(op, kind) ==
  IF op = "open"
  THEN damaged(write(rules), kind, HEADER_SIZE).len >= write(rules).len
  ELSE \A i \in DOMAIN slices :
         build(slices).entries[i].offset + build(slices).entries[i].size
           <= damaged(build(slices), kind, slice_HEADER_SIZE).len

\* C21: a container is opened only if it has a whole header, the magic, a
\* supported version, and every section or slice inside the file.
C21_OpenRejectsMalformed ==
  (asked.op \in {"open", "slice_open"} /\ asked.res = "Ok")
    => /\ asked.file \notin {"short", "magic", "version"}
       /\ sections_inside(asked.op, asked.file)

(***************************************************************************)
(* Claims about exact-IP rules.                                            *)
(***************************************************************************)
\* C22: an address with an exact-IP rule in the written file is answered
\* with that rule's target, whatever CIDR rules cover it.
C22_ExactIpBeforeCidr ==
  (asked.op = "match_ip" /\ asked.arg.v = 4) =>
    \A i \in DOMAIN rules.exact_v4_ips :
      rules.exact_v4_ips[i][1] = asked.arg.a => asked.res = rules.exact_v4_ips[i][2]

(***************************************************************************)
(* Claims about IntermediateRules.                                         *)
(***************************************************************************)
\* C23: after any calls of add_domain, add_v4_cidr, add_v6_cidr, add_geoip
\* every stored domain is non-empty and lower case, every prefix length fits
\* its family, and every country code is two upper-case letters.
C23_RulesKeepInvariants ==
  /\ \A i \in DOMAIN rules.exact_domains :
       /\ rules.exact_domains[i][1] # <<>>
       /\ rules.exact_domains[i][1] = to_lowercase(rules.exact_domains[i][1])
  /\ \A i \in DOMAIN rules.suffix_domains :
       /\ rules.suffix_domains[i][1] # <<>>
       /\ rules.suffix_domains[i][1] = to_lowercase(rules.suffix_domains[i][1])
  /\ \A i \in DOMAIN rules.v4_cidrs : rules.v4_cidrs[i][2] <= 32
  /\ \A i \in DOMAIN rules.v6_cidrs : rules.v6_cidrs[i][2] <= 128
  /\ \A i \in DOMAIN rules.geoip_countries :
       /\ Len(rules.geoip_countries[i][1]) = 2
       /\ \A k \in 1..Len(rules.geoip_countries[i][1]) :
            IndexIn(rules.geoip_countries[i][1][k], Upper) > 0

(***************************************************************************)
(* Claims about V2 GeoIP matching.                                         *)
(***************************************************************************)
\* the GeoIp slices that store the upper-cased code
geo_slices(code) ==
  {i \in DOMAIN slices :
     /\ slices[i].slice_type = GeoIp
     /\ \E k \in DOMAIN slices[i].data : slices[i].data[k] = to_uppercase(code)}

\* C24: match_geoip(c) answers the target of the first GeoIp slice that
\* stores the upper-cased c, None if there is none; an input that is not two
\* characters long gets None.
C24_GeoipIsEqualityOfCodes ==
  asked.op = "slice_match_geoip" =>
    /\ Len(asked.arg) # 2 => asked.res = NoTarget
    /\ Len(asked.arg) = 2 =>
         IF geo_slices(asked.arg) = {} THEN asked.res = NoTarget
         ELSE \E i \in geo_slices(asked.arg) :
                /\ asked.res = from_u8(slices[i].target)
                /\ \A j \in geo_slices(asked.arg) : i <= j

(***************************************************************************)
(* Claims about the cached rule file of the remote manager.                *)
(***************************************************************************)
\* C28: a rules.k2r that opened cleanly before update() or init() is, after
\* the call, whatever it returned, a file that opens cleanly.
C28_CachedFileStaysOpenable ==
  [][(last'.op \in {"update", "init"}
        /\ fs.rules # NoFile /\ Opens(Images[fs.rules]))
       => (fs'.rules # NoFile /\ Opens(Images[fs'.rules]))]_vars

\* the time elapsed since the metadata was saved reaches the interval
interval_elapsed(meta, time) == time - meta.last_updated >= UpdateInterval

holds_domain(rule, d) ==
  \/ d \in rule.exacts
  \/ \E x \in rule.suffixes :
       \/ d = x
       \/ Len(d) > Len(x) /\ SubSeq(d, Len(d) - Len(x), Len(d)) = <<".">> \o x

\* the rule lists the address, the range rule one of its networks
holds_ip(rule, ip) == ip_to_string(ip) \in rule.ips
holds_cidr(rule, ip) == \E net \in rule.v4_cidrs : in_v4_cidr(ip.a, net.a, net.prefix_len)

rule_holds(rule, ip, d) ==
  CASE rule.rule_type = "Domain" -> ip = NoIp /\ d # <<>> /\ holds_domain(rule, d)
    [] rule.rule_type = "IpMatch" -> ip # NoIp /\ holds_ip(rule, ip)
    [] rule.rule_type = "IpCidr" -> ip # NoIp /\ holds_cidr(rule, ip)

\* the rules of the set in the order of their priority, with the target of each
priority(set) ==
  <<set.direct_ip, set.direct_cidr, set.direct_domain, set.reject_domain,
    set.proxy_ip, set.proxy_cidr, set.proxy_domain>> \o set.rules

\* the target of the first rule in priority order that holds the input
first_match(set, text) ==
  LET ip == parse_ip(to_lowercase(text))
      hits == {i \in DOMAIN priority(set) : rule_holds(priority(set)[i], ip, to_lowercase(text))} IN
  IF hits = {} THEN set.config.fallback_target
  ELSE priority(set)[CHOOSE i \in hits : \A j \in hits : i <= j].target

without_cache(set) == [set EXCEPT !.domain_cache = NoCache, !.ip_cache = NoCache]

\* C26: with the caches on, match_domain and match_ip return what a RuleSet
\* without cache holding the same rules returns, after any rule-adding call.
C26_CacheFollowsRules ==
  /\ asked.op = "set_match_domain"
       => asked.res = match_domain(without_cache(ruleset), asked.arg).res
  /\ asked.op = "set_match_ip"
       => asked.res = match_ip(without_cache(ruleset), asked.arg).res

\* C30: match_ip(a) returns what match_input and match_host return for the
\* textual form of a.
C30_OneAnswerPerAddress ==
  asked.op = "set_match_ip"
    => /\ asked.res = match_input(ruleset, ip_to_string(asked.arg))
       /\ asked.res = match_host(ruleset, ip_to_string(asked.arg))

\* C29: once a rule set is installed by an explicit reload, match_rule and
\* the global add functions work on it: they leave its configuration and its
\* static rules in place and match_rule answers from it, whether or not the
\* lazy initialisation has run before.
C29_ExplicitRuleSetStays ==
  [][(global.ruleset.some /\ asked'.op \in GlobalAdds \cup {"match_rule"})
       => /\ global'.ruleset.some
          /\ global'.ruleset.set.config = global.ruleset.set.config
          /\ global'.ruleset.set.rules = global.ruleset.set.rules
          /\ asked'.op = "match_rule"
               => /\ global'.ruleset = global.ruleset
                  /\ asked'.res = match_input(global.ruleset.set, asked'.arg)]_vars
====
